---- MODULE Spec2Model ----
(***************************************************************************)
(* A model of the planning heuristics and of the habit store of the        *)
(* planner: utils/data_manager.py (session state, check_in_habit,          *)
(* award_points, save_user_data) and utils/task_classifier.py              *)
(* (estimate_task_parameters, get_next_tasks).                             *)
(*                                                                         *)
(* Python lists of dicts are lists of references.  The session's habits    *)
(* list is therefore a sequence of object identities (habits) and the      *)
(* dicts themselves live in a heap (habitObj), so that two list slots can  *)
(* hold the same dict.  What save_user_data writes is a deep copy (JSON).  *)
(***************************************************************************)
EXTENDS Integers, Sequences, FiniteSets, TLC

VARIABLES
    habits,      \* st.session_state["habits"]: list of references to habit dicts
    habitObj,    \* the habit dicts ever created, by identity
    points,      \* st.session_state["points"]
    rewards,     \* st.session_state["rewards"]
    unlocked,    \* st.session_state["unlocked_rewards"]
    disk,        \* the user data last written by save_user_data
    hcall,       \* the last habit operation: its arguments, outcome and pre-state
    rtasks,      \* the list of task dicts a caller passes to get_next_tasks
    rcall,       \* the last get_next_tasks call: argument, pre-state and result
    ecall,       \* the last estimate_task_parameters call: arguments and results
    scall,       \* the last suggest_time_slot call: arguments, clock and result
    dcall,       \* the last estimate_task_duration call: argument and result
    ccall,       \* the last classify_task call: arguments and result
    pcall,       \* the last priority filter and labels of a task
    session_tasks,       \* st.session_state["tasks"]
    session_goals,       \* st.session_state["goals"]
    session_events,      \* st.session_state["calendar_events"]
    session_categories,  \* st.session_state["categories"]
    tdisk,       \* the tasks, goals, events and categories last written
    tcall,       \* the last operation on them: arguments, outcome, pre-state
    awarded      \* the points awarded so far for each task id and each goal id

hvars == <<habits, habitObj, points, rewards, unlocked, disk, hcall>>
rvars == <<rtasks, rcall>>
evars == <<ecall>>
svars == <<scall>>
dvars == <<dcall>>
\* the variables of the scheduling heuristics
cvars == <<ccall>>
pvars == <<pcall>>
xvars == <<svars, dvars, cvars, pvars>>
tvars == <<session_tasks, session_goals, session_events, session_categories,
          tdisk, tcall, awarded>>
vars == <<hvars, rvars, evars, xvars, tvars>>

\* no get_next_tasks call is made
RIdle ==
    /\ rtasks = <<>>
    /\ rcall = [op |-> "init", top_n |-> 0, pre_tasks |-> <<>>, result |-> <<>>]

\* no estimate_task_parameters call has been made
EIdle ==
    ecall = [op |-> "init", task_title |-> <<>>, task_description |-> <<>>,
             text |-> <<>>, importance |-> 3, tier_urgency |-> 3, urgency |-> 3]

\* no suggest_time_slot call has been made
SIdle ==
    scall = [op |-> "init", task |-> <<>>, user_profile |-> <<>>,
             existing_events |-> <<>>, now_hour |-> 0,
             start |-> [type |-> "NoneType", value |-> 0], duration |-> 0,
             branch |-> "none"]

\* no estimate_task_duration call has been made
DIdle == dcall = [op |-> "init", task |-> <<>>, result |-> 0]

\* no classify_task call has been made
CIdle == ccall = [op |-> "init", task_title |-> <<>>, categories |-> <<>>, result |-> 0]

\* the value None, which is the id of no category
None == 0

\* what save_user_data writes of the tasks, goals, events and categories
store_data(ts, gs, evs, cats) ==
    [tasks |-> ts, goals |-> gs, calendar_events |-> evs, categories |-> cats]

\* the session of a new user: no task, goal, event or category
TIdle ==
    /\ session_tasks = <<>>
    /\ session_goals = <<>>
    /\ session_events = <<>>
    /\ session_categories = <<>>
    /\ tdisk = store_data(<<>>, <<>>, <<>>, <<>>)
    /\ tcall = [op |-> "init", id |-> 0, ret |-> "None", pre_categories |-> <<>>]
    /\ awarded = [tasks |-> <<>>, goals |-> <<>>]

\* no task has been filtered or labelled by priority
PIdle ==
    pcall = [op |-> "init", task |-> <<>>, selected_priority |-> "All Priorities",
             shown |-> FALSE, label |-> "None", page_label |-> "None"]

\* none of the scheduling and classifying heuristics has been called
XIdle == SIdle /\ DIdle /\ CIdle /\ PIdle

-----------------------------------------------------------------------------
(* Bounds of the model. *)

\* habit dicts created in one behaviour
MaxHabits == 2
\* check-in dates range over the days FirstDay .. FirstDay + MaxDay
MaxDay == 2
\* check-ins stop being made once the points total has reached this many
\* multiples of the check-in award
MaxAwards == 3
\* length of the task list passed to get_next_tasks
MaxTasks == 3
\* top_n ranges over 0 .. MaxTopN
MaxTopN == 3
\* number of words of a task title
MaxTitleWords == 2

-----------------------------------------------------------------------------
(* Dates.  A date is its day number counted from 2024-02-27 (day 0), a     *)
(* window that crosses the end of a leap-year February.  An ISO string     *)
(* "YYYY-MM-DD" is the triple <<year, month, day>>.                        *)

Days == 0 .. MaxDay

\* date.isoformat()
isoformat(d) == IF d <= 2 THEN <<2024, 2, 27 + d>> ELSE <<2024, 3, d - 2>>

\* datetime.fromisoformat(s).date(), as a day number
fromisoformat(s) == IF s[2] = 2 THEN s[3] - 27 ELSE s[3] + 2

\* Python's `x in list`
InList(x, l) == \E k \in 1 .. Len(l) : l[k] = x

\* sorted(l) for a list of day numbers: insertion into an ascending list
RECURSIVE InsertSorted(_, _)
InsertSorted(x, s) ==
    IF s = <<>> THEN <<x>>
    ELSE IF x < Head(s) THEN <<x>> \o s
    ELSE <<Head(s)>> \o InsertSorted(x, Tail(s))

RECURSIVE sorted(_)
sorted(l) == IF l = <<>> THEN <<>> ELSE InsertSorted(Head(l), sorted(Tail(l)))

Max(a, b) == IF a >= b THEN a ELSE b

-----------------------------------------------------------------------------
(* Persistence and points (utils/data_manager.py).                         *)

\* dict.get(key, default)
Get(d, key, default) == IF key \in DOMAIN d THEN d[key] ELSE default

\* d[key] = value
SetField(d, key, value) ==
    [f \in DOMAIN d \cup {key} |-> IF f = key THEN value ELSE d[f]]

\* the time of an operation, as completed_at, unlocked_at and redeemed_at
\* record it
Now == 1

\* json.dump of the session state: the lists by value, sharing lost
user_data(hs, objs, pts, rws, unl) ==
    [habits           |-> [k \in 1 .. Len(hs) |-> objs[hs[k]]],
     points           |-> pts,
     rewards          |-> rws,
     unlocked_rewards |-> unl]

\* the ids of the rewards in a list of reward dicts
RewardIds(l) == {l[k].id : k \in 1 .. Len(l)}

\* check_for_unlockable_rewards: the loop over rewards; unlocked_ids is
\* computed once, before the loop
RECURSIVE UnlockLoop(_, _, _, _)
UnlockLoop(rws, unlocked_ids, pts, unl) ==
    IF rws = <<>> THEN unl
    ELSE LET reward == Head(rws)
             hit == reward.id \notin unlocked_ids /\ reward.point_cost <= pts
         IN UnlockLoop(Tail(rws), unlocked_ids, pts,
                       IF hit THEN Append(unl, SetField(reward, "unlocked_at", Now))
                       ELSE unl)

check_for_unlockable_rewards(rws, pts, unl) ==
    UnlockLoop(rws, RewardIds(unl), pts, unl)

\* the amount check_in_habit passes to award_points
CheckInPoints == 5

-----------------------------------------------------------------------------
(* check_in_habit (utils/data_manager.py).                                 *)

Mut_AlreadyCheckedIn(check_in_str, habit) == FALSE

\* `check_in_str in habit.get("check_ins", [])`
AlreadyCheckedIn(check_in_str, habit) == InList(check_in_str, habit.check_ins)

\* the indices (from 1) of the list entries whose id is habit_id; the loop
\* of check_in_habit stops at the first of them
IndicesOf(hs, objs, habit_id) == {k \in 1 .. Len(hs) : objs[hs[k]].id = habit_id}

FirstIndexOf(hs, objs, habit_id) ==
    CHOOSE k \in IndicesOf(hs, objs, habit_id) :
        \A j \in IndicesOf(hs, objs, habit_id) : k <= j

Mut_Consecutive(prev_date, curr_date) == TRUE

\* `(curr_date - prev_date).days == 1`
Consecutive(prev_date, curr_date) == curr_date - prev_date = 1

\* the loop `for i in range(1, len(sorted_check_ins))` entered with i and
\* current_streak; s is sorted_check_ins as day numbers.  Yields the streak
\* and the value the loop leaves in i.
RECURSIVE StreakLoop(_, _, _)
StreakLoop(s, i, current_streak) ==
    LET prev_date == s[Len(s) - i]          \* sorted_check_ins[-i-1]
        curr_date == s[Len(s) - i + 1]      \* sorted_check_ins[-i]
    IN IF Consecutive(prev_date, curr_date)
       THEN IF i + 1 < Len(s)
            THEN StreakLoop(s, i + 1, current_streak + 1)
            ELSE [streak |-> current_streak + 1, i |-> i]
       ELSE [streak |-> current_streak, i |-> i]

\* lines 245-263: the streak computed after the append, and the value of the
\* variable i afterwards.  i is the enumerate index of the habit (from 0)
\* unless the inner loop, which reuses the name, has run.
ComputeStreak(check_ins, check_in_date, i) ==
    LET sorted_check_ins ==
            sorted([k \in 1 .. Len(check_ins) |-> fromisoformat(check_ins[k])])
        most_recent == sorted_check_ins[Len(sorted_check_ins)]
    IN IF most_recent = check_in_date /\ Len(sorted_check_ins) >= 2
       THEN StreakLoop(sorted_check_ins, 1, 1)
       ELSE [streak |-> 1, i |-> i]

Mut_NewBestStreak(prev_best, current_streak) == current_streak

\* line 249 and line 267
NewBestStreak(prev_best, current_streak) == Max(Max(prev_best, 1), current_streak)

\* the record of an operation, with the state it started from
HCall(op, habit_id, date, ret) ==
    [op |-> op, habit_id |-> habit_id, date |-> date, ret |-> ret,
     pre_habits |-> habits, pre_obj |-> habitObj, pre_points |-> points]

HabitIds == 1 .. MaxHabits

check_in_habit(habit_id, check_in_date) ==
    LET check_in_str == isoformat(check_in_date)
    IN
    IF IndicesOf(habits, habitObj, habit_id) = {}
    THEN \* no habit has this id: the loop ends, return False
         /\ hcall' = HCall("check_in_habit", habit_id, check_in_date, "False")
         /\ UNCHANGED <<habits, habitObj, points, rewards, unlocked, disk>>
    ELSE
    LET idx == FirstIndexOf(habits, habitObj, habit_id)
        ref == habits[idx]
        habit == habitObj[ref]
    IN
    IF AlreadyCheckedIn(check_in_str, habit)
    THEN /\ hcall' = HCall("check_in_habit", habit_id, check_in_date, "False")
         /\ UNCHANGED <<habits, habitObj, points, rewards, unlocked, disk>>
    ELSE
    LET check_ins == Append(habit.check_ins, check_in_str)
        walk == ComputeStreak(check_ins, check_in_date, idx - 1)
        updated == [habit EXCEPT !.check_ins = check_ins,
                                 !.current_streak = walk.streak,
                                 !.best_streak = NewBestStreak(habit.best_streak, walk.streak)]
        obj2 == [habitObj EXCEPT ![ref] = updated]
    IN
    IF walk.i >= Len(habits)
    THEN \* st.session_state["habits"][i] = habit raises IndexError; the dict
         \* has been changed in place, nothing is saved, no points
         /\ habitObj' = obj2
         /\ hcall' = HCall("check_in_habit", habit_id, check_in_date, "IndexError")
         /\ UNCHANGED <<habits, points, rewards, unlocked, disk>>
    ELSE
    LET hs2 == [habits EXCEPT ![walk.i + 1] = ref]
        pts2 == points + CheckInPoints
        unl2 == check_for_unlockable_rewards(rewards, pts2, unlocked)
    IN
         /\ habits' = hs2
         /\ habitObj' = obj2
         /\ points' = pts2
         /\ unlocked' = unl2
         /\ disk' = user_data(hs2, obj2, pts2, rewards, unl2)
         /\ hcall' = HCall("check_in_habit", habit_id, check_in_date, "True")
         /\ UNCHANGED rewards

CheckIn ==
    /\ points < MaxAwards * CheckInPoints
    /\ \E habit_id \in HabitIds, d \in Days : check_in_habit(habit_id, d)
    /\ UNCHANGED <<rvars, evars, xvars, tvars>>

\* the ids a category selectbox offers; None when there is no category
CategoryChoices ==
    IF session_categories = <<>> THEN {None}
    ELSE {session_categories[k].id : k \in 1 .. Len(session_categories)}

\* `if not category_id and st.session_state.get("categories")`: the first
\* category stands in for a missing one
DefaultCategory(category_id) ==
    IF category_id = None /\ session_categories # <<>>
    THEN session_categories[1].id ELSE category_id

\* add_habit: a new dict with a fresh id, appended and saved
add_habit ==
    \E category_id \in CategoryChoices :
    LET ref == Cardinality(DOMAIN habitObj) + 1
        new_habit == [id |-> ref, category_id |-> DefaultCategory(category_id),
                      check_ins |-> <<>>,
                      current_streak |-> 0, best_streak |-> 0]
        obj2 == [k \in DOMAIN habitObj \cup {ref} |->
                    IF k = ref THEN new_habit ELSE habitObj[k]]
        hs2 == Append(habits, ref)
    IN /\ Cardinality(DOMAIN habitObj) < MaxHabits
       /\ habits' = hs2
       /\ habitObj' = obj2
       /\ disk' = user_data(hs2, obj2, points, rewards, unlocked)
       /\ hcall' = HCall("add_habit", ref, 0, "None")
       /\ UNCHANGED <<points, rewards, unlocked>>
       /\ UNCHANGED <<rvars, evars, xvars, tvars>>

\* pages/04_Health_Habits.py, "Clear Check-in History" confirmed: the first
\* habit with the selected id loses its check-ins and its current streak
clear_history(habit_id) ==
    /\ IndicesOf(habits, habitObj, habit_id) # {}
    /\ LET ref == habits[FirstIndexOf(habits, habitObj, habit_id)]
           obj2 == [habitObj EXCEPT ![ref].check_ins = <<>>,
                                    ![ref].current_streak = 0]
       IN /\ habitObj[ref].check_ins # <<>>
          /\ habitObj' = obj2
          /\ disk' = user_data(habits, obj2, points, rewards, unlocked)
          /\ hcall' = HCall("clear_history", habit_id, 0, "None")
          /\ UNCHANGED <<habits, points, rewards, unlocked>>

ClearHistory ==
    /\ \E habit_id \in HabitIds : clear_history(habit_id)
    /\ UNCHANGED <<rvars, evars, xvars, tvars>>

HInit ==
    /\ habits = <<>>
    /\ habitObj = <<>>
    /\ points = 0
    /\ rewards = <<>>
    /\ unlocked = <<>>
    /\ disk = user_data(<<>>, <<>>, 0, <<>>, <<>>)
    /\ hcall = [op |-> "init", habit_id |-> 0, date |-> 0, ret |-> "None",
                pre_habits |-> <<>>, pre_obj |-> <<>>, pre_points |-> 0]

HNext == CheckIn \/ add_habit \/ ClearHistory

\* the session before any operation, no heuristic called
InitHabit == HInit /\ RIdle /\ EIdle /\ XIdle /\ TIdle

SpecHabit == InitHabit /\ [][HNext]_vars

\* habits that are only ever created and checked in
SpecCheckIn == InitHabit /\ [][CheckIn \/ add_habit]_vars

-----------------------------------------------------------------------------
(* The last call, seen from the state it left.                             *)

\* the last operation was check_in_habit for an id that was in the list
CheckedInExisting ==
    /\ hcall.op = "check_in_habit"
    /\ IndicesOf(hcall.pre_habits, hcall.pre_obj, hcall.habit_id) # {}

\* the index, the identity and the dict (before the call) of that habit
CallIdx == FirstIndexOf(hcall.pre_habits, hcall.pre_obj, hcall.habit_id)
CallRef == hcall.pre_habits[CallIdx]
CallPreHabit == hcall.pre_obj[CallRef]

\* the date of the call was already recorded / was new
CallDateRecorded == InList(isoformat(hcall.date), CallPreHabit.check_ins)

\* the dates of a check_ins list, as day numbers
DatesOf(check_ins) == {fromisoformat(check_ins[k]) : k \in 1 .. Len(check_ins)}

-----------------------------------------------------------------------------
(* Claims about check_in_habit.                                            *)

\* C1: check_in_habit for an existing habit with a date already in its
\* check_ins returns False and leaves the habits list, every habit dict and
\* the points total as they were.
C1_DuplicateCheckIn ==
    (CheckedInExisting /\ CallDateRecorded) =>
        /\ hcall.ret = "False"
        /\ habits = hcall.pre_habits
        /\ habitObj = hcall.pre_obj
        /\ points = hcall.pre_points

\* a duplicate check-in has been attempted on a habit with two check-ins
C1_Witness ==
    /\ CheckedInExisting /\ CallDateRecorded
    /\ Len(CallPreHabit.check_ins) = 2
    /\ hcall.ret = "False"

\* C2: a habit that has been checked in exactly once for each of three
\* consecutive days, in any order, has current_streak = 3 and best_streak = 3
\* after the last of the three calls.
C2_ThreeConsecutiveDays ==
    \A d \in Days :
        ( /\ CheckedInExisting /\ ~CallDateRecorded
          /\ Len(habitObj[CallRef].check_ins) = 3
          /\ DatesOf(habitObj[CallRef].check_ins) = {d, d + 1, d + 2} )
        => /\ habitObj[CallRef].current_streak = 3
           /\ habitObj[CallRef].best_streak = 3

\* C3: check_in_habit for an existing habit and a date not yet recorded
\* completes without raising and returns True.
C3_NewDateReturnsTrue ==
    (CheckedInExisting /\ ~CallDateRecorded) => hcall.ret = "True"

\* C4: check_in_habit changes only the habit it is called for: the list
\* keeps its length and every other index holds the same habit, with the
\* same id, check_ins and streaks, as before the call.
C4_OtherHabitsUntouched ==
    CheckedInExisting =>
        /\ Len(habits) = Len(hcall.pre_habits)
        /\ \A k \in 1 .. Len(hcall.pre_habits) :
              k # CallIdx => habitObj[habits[k]] = hcall.pre_obj[hcall.pre_habits[k]]

\* C5: a check-in that records a new date leaves best_streak equal to the
\* larger of the previous best_streak and the new current_streak; no
\* operation lowers a habit's best_streak; and current_streak <= best_streak
\* for every habit in every state.
C5_BestStreak ==
    /\ (CheckedInExisting /\ ~CallDateRecorded) =>
          habitObj[CallRef].best_streak =
              Max(CallPreHabit.best_streak, habitObj[CallRef].current_streak)
    /\ \A r \in DOMAIN hcall.pre_obj :
          habitObj[r].best_streak >= hcall.pre_obj[r].best_streak
    /\ \A r \in DOMAIN habitObj :
          habitObj[r].current_streak <= habitObj[r].best_streak

\* a check-in recorded a date on a habit whose earlier best streak of 2
\* stays above its new current streak of 1
C5_Witness ==
    /\ CheckedInExisting /\ ~CallDateRecorded
    /\ CallPreHabit.best_streak = 2
    /\ habitObj[CallRef].current_streak = 1
    /\ habitObj[CallRef].best_streak = 2


\* the check_ins list is in strictly ascending date order
Ascending(check_ins) ==
    \A a, b \in 1 .. Len(check_ins) :
        a < b => fromisoformat(check_ins[a]) < fromisoformat(check_ins[b])

\* the length of the maximal run of consecutive days in dates that ends at d
RunEndingAt(dates, d) ==
    CHOOSE n \in 1 .. Cardinality(dates) :
        /\ \A k \in 0 .. n - 1 : d - k \in dates
        /\ d - n \notin dates

\* the call recorded a date later than every date the habit had, the
\* earlier check-ins having been made in ascending order too
CheckedInAscending ==
    /\ CheckedInExisting
    /\ ~CallDateRecorded
    /\ Ascending(CallPreHabit.check_ins)
    /\ \A d \in DatesOf(CallPreHabit.check_ins) : d < hcall.date

\* C20: when the check-ins of a habit are made in strictly ascending date
\* order, the current_streak stored after each of them is the length of the
\* maximal run of consecutive days ending at the date just checked in; a
\* check-in on D followed by one on D + 2 leaves current_streak = 1.
C20_AscendingStreak ==
    CheckedInAscending =>
        /\ habitObj[CallRef].check_ins =
              Append(CallPreHabit.check_ins, isoformat(hcall.date))
        /\ habitObj[CallRef].current_streak =
              RunEndingAt(DatesOf(habitObj[CallRef].check_ins), hcall.date)
        /\ (DatesOf(CallPreHabit.check_ins) = {hcall.date - 2}) =>
              habitObj[CallRef].current_streak = 1

\* a habit checked in on D is checked in on D + 2 by a call that returns True
C20_Witness ==
    /\ CheckedInAscending
    /\ hcall.ret = "True"
    /\ Len(CallPreHabit.check_ins) = 1
    /\ DatesOf(CallPreHabit.check_ins) = {hcall.date - 2}
    /\ habitObj[CallRef].current_streak = 1

\* the habit dicts whose check_ins the last call has changed
CallAppended ==
    { r \in DOMAIN hcall.pre_obj : habitObj[r].check_ins # hcall.pre_obj[r].check_ins }

\* C27: check_in_habit is all-or-nothing: after a call a date has been
\* appended to a habit's check_ins by that call if and only if the call
\* returned True, the points total grew by exactly 5 and the persisted data
\* contains that check-in; no call leaves a new check-in in memory without
\* the 5 points and the save.
C27_AllOrNothing ==
    hcall.op = "check_in_habit" =>
        /\ (CallAppended # {}) <=> (hcall.ret = "True")
        /\ CallAppended # {} =>
              /\ points = hcall.pre_points + CheckInPoints
              /\ disk = user_data(habits, habitObj, points, rewards, unlocked)
        /\ CallAppended = {} =>
              /\ points = hcall.pre_points
              /\ habitObj = hcall.pre_obj

-----------------------------------------------------------------------------
(* get_next_tasks (utils/task_classifier.py).                              *)
(* A task dict is a function from the field names it has to their values,  *)
(* so that a missing field and an added field are visible.  The list holds *)
(* references: the result of get_next_tasks is a list of the same dicts,   *)
(* given here as their positions in the input list.                        *)

\* the task dicts the inputs are drawn from: completed, importance and
\* urgency are each present or missing
CompletedValues == {FALSE, TRUE}
ImportanceValues == {5}
UrgencyValues == {4}

TaskDicts ==
    { [f \in fs |-> CASE f = "completed" -> c
                      [] f = "importance" -> i
                      [] f = "urgency" -> u] :
        fs \in SUBSET {"completed", "importance", "urgency"},
        c \in CompletedValues, i \in ImportanceValues, u \in UrgencyValues }

TaskLists == UNION { [1 .. n -> TaskDicts] : n \in 0 .. MaxTasks }

Mut_IsIncomplete(task) == TRUE

\* `not task.get("completed", False)`
IsIncomplete(task) == ~Get(task, "completed", FALSE)

\* `importance * urgency` with the defaults of lines 269-270
PriorityScore(task) == Get(task, "importance", 3) * Get(task, "urgency", 3)

\* the loop of lines 268-271 on the caller's dicts
WithScores(tasks) ==
    [k \in 1 .. Len(tasks) |->
        IF IsIncomplete(tasks[k])
        THEN SetField(tasks[k], "priority_score", PriorityScore(tasks[k]))
        ELSE tasks[k]]

\* the list comprehension of line 265, as positions in tasks
RECURSIVE IncompleteFrom(_, _)
IncompleteFrom(tasks, k) ==
    IF k > Len(tasks) THEN <<>>
    ELSE IF IsIncomplete(tasks[k]) THEN <<k>> \o IncompleteFrom(tasks, k + 1)
    ELSE IncompleteFrom(tasks, k + 1)

\* the sort key of line 274
SortKey(tasks, k) == Get(tasks[k], "priority_score", 0)

\* sorted(..., reverse=True) is stable: an element goes behind every element
\* whose key is at least its own
RECURSIVE InsertDesc(_, _, _)
InsertDesc(tasks, k, s) ==
    IF s = <<>> THEN <<k>>
    ELSE IF SortKey(tasks, Head(s)) >= SortKey(tasks, k)
         THEN <<Head(s)>> \o InsertDesc(tasks, k, Tail(s))
         ELSE <<k>> \o s

\* a sort that takes the list from its end, which turns equal keys around
RECURSIVE Mut_SortedDesc(_, _)
Mut_SortedDesc(tasks, l) ==
    IF l = <<>> THEN <<>>
    ELSE InsertDesc(tasks, Head(l), Mut_SortedDesc(tasks, Tail(l)))

RECURSIVE SortedDesc(_, _)
SortedDesc(tasks, l) ==
    IF l = <<>> THEN <<>>
    ELSE InsertDesc(tasks, l[Len(l)], SortedDesc(tasks, SubSeq(l, 1, Len(l) - 1)))

\* sorted_tasks[:top_n] for top_n >= 0
Slice(l, top_n) == SubSeq(l, 1, IF top_n < Len(l) THEN top_n ELSE Len(l))

get_next_tasks(top_n) ==
    IF rtasks = <<>>
    THEN /\ rcall' = [op |-> "get_next_tasks", top_n |-> top_n,
                      pre_tasks |-> rtasks, result |-> <<>>]
         /\ UNCHANGED rtasks
    ELSE LET scored == WithScores(rtasks)
             sorted_tasks == SortedDesc(scored, IncompleteFrom(rtasks, 1))
         IN /\ rtasks' = scored
            /\ rcall' = [op |-> "get_next_tasks", top_n |-> top_n,
                         pre_tasks |-> rtasks, result |-> Slice(sorted_tasks, top_n)]

GetNextTasks ==
    /\ \E top_n \in 0 .. MaxTopN : get_next_tasks(top_n)
    /\ UNCHANGED <<hvars, evars, xvars, tvars>>

RInit ==
    /\ rtasks \in TaskLists
    /\ rcall = [op |-> "init", top_n |-> 0, pre_tasks |-> <<>>, result |-> <<>>]

RNext == GetNextTasks

InitRank == RInit /\ HInit /\ EIdle /\ XIdle /\ TIdle

SpecRank == InitRank /\ [][RNext]_vars

-----------------------------------------------------------------------------
(* Claims about get_next_tasks.                                            *)

Ranked == rcall.op = "get_next_tasks"

\* the positions of the incomplete tasks of the input
IncompleteSet == {k \in 1 .. Len(rcall.pre_tasks) : ~Get(rcall.pre_tasks[k], "completed", FALSE)}

\* importance * urgency of the input task at position k, missing read as 3
ScoreOf(k) ==
    Get(rcall.pre_tasks[k], "importance", 3) * Get(rcall.pre_tasks[k], "urgency", 3)

ResultSet == {rcall.result[j] : j \in 1 .. Len(rcall.result)}

\* C6: get_next_tasks returns no completed task, at most min(top_n, number
\* of incomplete tasks) tasks, only tasks of the input (each at most once),
\* in non-increasing order of importance * urgency, and every incomplete
\* task left out scores no more than the smallest score returned.
C6_TopTasks ==
    Ranked =>
        /\ \A j \in 1 .. Len(rcall.result) :
              /\ rcall.result[j] \in 1 .. Len(rcall.pre_tasks)
              /\ rcall.result[j] \in IncompleteSet
        /\ Len(rcall.result) <= rcall.top_n
        /\ Len(rcall.result) <= Cardinality(IncompleteSet)
        /\ Cardinality(ResultSet) = Len(rcall.result)
        /\ \A j \in 1 .. Len(rcall.result) - 1 :
              ScoreOf(rcall.result[j]) >= ScoreOf(rcall.result[j + 1])
        /\ \A k \in IncompleteSet \ ResultSet :
              \A j \in 1 .. Len(rcall.result) : ScoreOf(k) <= ScoreOf(rcall.result[j])

\* a call with top_n = 2 on three tasks, one completed with the highest
\* score, returned the other two in an order that differs from the input's
C6_Witness ==
    /\ Ranked
    /\ rcall.top_n = 2
    /\ Len(rcall.pre_tasks) = 3
    /\ Cardinality(IncompleteSet) = 2
    /\ \E k \in 1 .. 3 : k \notin IncompleteSet /\ \A j \in IncompleteSet : ScoreOf(k) > ScoreOf(j)
    /\ Len(rcall.result) = 2
    /\ rcall.result[1] > rcall.result[2]
    /\ ScoreOf(rcall.result[1]) > ScoreOf(rcall.result[2])

\* C7: get_next_tasks only reads its input: after the call every task dict
\* of the caller's list has the fields and values it had before.
C7_InputUnchanged == Ranked => rtasks = rcall.pre_tasks

\* C25: ties are broken by input order: two incomplete tasks with equal
\* importance * urgency appear in the output in the same relative order as
\* in the input list, and when a tie straddles the top_n cut the earlier
\* input task is the one returned.
C25_TiesByInputOrder ==
    Ranked =>
        /\ \A i, j \in 1 .. Len(rcall.result) :
              (i < j /\ ScoreOf(rcall.result[i]) = ScoreOf(rcall.result[j]))
                  => rcall.result[i] < rcall.result[j]
        /\ \A k \in IncompleteSet \ ResultSet :
              \A j \in 1 .. Len(rcall.result) :
                  ScoreOf(k) = ScoreOf(rcall.result[j]) => rcall.result[j] < k

\* three incomplete tasks, the first and the third with the same score below
\* the second's, and top_n = 2: the second and the first are returned
C25_Witness ==
    /\ Ranked
    /\ rcall.top_n = 2
    /\ Len(rcall.pre_tasks) = 3
    /\ IncompleteSet = {1, 2, 3}
    /\ ScoreOf(1) = ScoreOf(3)
    /\ ScoreOf(1) < ScoreOf(2)
    /\ rcall.result = <<2, 1>>

-----------------------------------------------------------------------------
(* estimate_task_parameters (utils/task_classifier.py).                    *)
(* A string is the sequence of its characters, so that `keyword in text`   *)
(* and re.search are decided on the characters as Python decides them.     *)
\* importance_keywords["high"]
importance_high ==
    << <<"i", "m", "p", "o", "r", "t", "a", "n", "t">>,
       <<"c", "r", "i", "t", "i", "c", "a", "l">>,
       <<"c", "r", "u", "c", "i", "a", "l">>,
       <<"e", "s", "s", "e", "n", "t", "i", "a", "l">>,
       <<"k", "e", "y">>,
       <<"m", "a", "j", "o", "r">>,
       <<"s", "i", "g", "n", "i", "f", "i", "c", "a", "n", "t">>,
       <<"v", "i", "t", "a", "l">>,
       <<"p", "r", "i", "o", "r", "i", "t", "y">> >>

\* importance_keywords["medium"]
importance_medium ==
    << <<"n", "e", "c", "e", "s", "s", "a", "r", "y">>,
       <<"n", "e", "e", "d", "e", "d">>,
       <<"r", "e", "q", "u", "i", "r", "e", "d">>,
       <<"s", "h", "o", "u", "l", "d">>,
       <<"u", "s", "e", "f", "u", "l">> >>

\* importance_keywords["low"]
importance_low ==
    << <<"o", "p", "t", "i", "o", "n", "a", "l">>,
       <<"m", "i", "n", "o", "r">>,
       <<"t", "r", "i", "v", "i", "a", "l">>,
       <<"i", "f", " ", "t", "i", "m", "e">>,
       <<"s", "o", "m", "e", "t", "i", "m", "e">>,
       <<"e", "v", "e", "n", "t", "u", "a", "l", "l", "y">>,
       <<"w", "h", "e", "n", " ", "p", "o", "s", "s", "i", "b", "l", "e">> >>

\* urgency_keywords["high"]
urgency_high ==
    << <<"u", "r", "g", "e", "n", "t">>,
       <<"a", "s", "a", "p">>,
       <<"i", "m", "m", "e", "d", "i", "a", "t", "e", "l", "y">>,
       <<"n", "o", "w">>,
       <<"t", "o", "d", "a", "y">>,
       <<"t", "o", "n", "i", "g", "h", "t">>,
       <<"d", "e", "a", "d", "l", "i", "n", "e">>,
       <<"d", "u", "e">>,
       <<"o", "v", "e", "r", "d", "u", "e">>,
       <<"s", "o", "o", "n">>,
       <<"q", "u", "i", "c", "k", "l", "y">>,
       <<"f", "a", "s", "t">> >>

\* urgency_keywords["medium"]
urgency_medium ==
    << <<"t", "h", "i", "s", " ", "w", "e", "e", "k">>,
       <<"n", "e", "x", "t", " ", "f", "e", "w", " ", "d", "a", "y", "s">>,
       <<"t", "o", "m", "o", "r", "r", "o", "w">>,
       <<"u", "p", "c", "o", "m", "i", "n", "g">> >>

\* urgency_keywords["low"]
urgency_low ==
    << <<"w", "h", "e", "n", " ", "c", "o", "n", "v", "e", "n", "i", "e", "n", "t">>,
       <<"s", "o", "m", "e", "t", "i", "m", "e">>,
       <<"l", "a", "t", "e", "r">>,
       <<"e", "v", "e", "n", "t", "u", "a", "l", "l", "y">>,
       <<"n", "o", " ", "r", "u", "s", "h">>,
       <<"t", "a", "k", "e", " ", "t", "i", "m", "e">>,
       <<"n", "e", "x", "t", " ", "m", "o", "n", "t", "h">> >>

\* the month alternatives of the first date pattern
MonthNames ==
    << <<"j", "a", "n">>,
       <<"f", "e", "b">>,
       <<"m", "a", "r">>,
       <<"a", "p", "r">>,
       <<"m", "a", "y">>,
       <<"j", "u", "n">>,
       <<"j", "u", "l">>,
       <<"a", "u", "g">>,
       <<"s", "e", "p">>,
       <<"o", "c", "t">>,
       <<"n", "o", "v">>,
       <<"d", "e", "c">> >>

\* the weekday alternatives of the third date pattern
WeekdayNames ==
    << <<"m", "o", "n", "d", "a", "y">>,
       <<"t", "u", "e", "s", "d", "a", "y">>,
       <<"w", "e", "d", "n", "e", "s", "d", "a", "y">>,
       <<"t", "h", "u", "r", "s", "d", "a", "y">>,
       <<"f", "r", "i", "d", "a", "y">>,
       <<"s", "a", "t", "u", "r", "d", "a", "y">>,
       <<"s", "u", "n", "d", "a", "y">> >>

\* the words titles and descriptions are made of
Vocabulary ==
    << <<"C", "r", "i", "t", "i", "c", "a", "l">>,
       <<"s", "h", "o", "u", "l", "d">>,
       <<"o", "p", "t", "i", "o", "n", "a", "l">>,
       <<"s", "o", "m", "e", "t", "i", "m", "e">>,
       <<"A", "S", "A", "P">>,
       <<"t", "o", "m", "o", "r", "r", "o", "w">>,
       <<"n", "e", "x", "t">>,
       <<"t", "h", "i", "s">>,
       <<"w", "e", "e", "k">>,
       <<"m", "o", "n", "t", "h">>,
       <<"d", "u", "e">>,
       <<"b", "y">>,
       <<"3", "/", "4">>,
       <<"c", "l", "e", "a", "n", "u", "p">> >>

\* the words descriptions are made of
DescriptionWords ==
    << <<"w", "e", "e", "k">>,
       <<"m", "o", "n", "t", "h">>,
       <<"3", "/", "4">> >>

UpperLetters == <<"A", "B", "C", "D", "E", "F", "G", "H", "I", "J", "K", "L", "M", "N", "O", "P", "Q", "R", "S", "T", "U", "V", "W", "X", "Y", "Z">>
LowerLetters == <<"a", "b", "c", "d", "e", "f", "g", "h", "i", "j", "k", "l", "m", "n", "o", "p", "q", "r", "s", "t", "u", "v", "w", "x", "y", "z">>
Digits == {"0", "1", "2", "3", "4", "5", "6", "7", "8", "9"}
S_due == <<"d", "u", "e", " ">>
S_on == <<"o", "n">>
S_by == <<"b", "y">>
S_by_ == <<"b", "y", " ">>
S_this == <<"t", "h", "i", "s">>
S_next == <<"n", "e", "x", "t">>
S_week == <<"w", "e", "e", "k">>
S_month == <<"m", "o", "n", "t", "h">>
S_st == <<"s", "t">>
S_nd == <<"n", "d">>
S_rd == <<"r", "d">>
S_th == <<"t", "h">>
S_sp == <<" ">>
S_slash == <<"/">>

\* str.lower() on one character
LowerChar(c) ==
    IF \E k \in 1 .. Len(UpperLetters) : UpperLetters[k] = c
    THEN LowerLetters[CHOOSE k \in 1 .. Len(UpperLetters) : UpperLetters[k] = c]
    ELSE c

\* str.lower()
Lower(s) == [k \in 1 .. Len(s) |-> LowerChar(s[k])]

\* the literal lit stands in t at position i
At(t, i, lit) ==
    /\ i + Len(lit) - 1 <= Len(t)
    /\ \A k \in 1 .. Len(lit) : t[i + k - 1] = lit[k]

\* `keyword in text` for strings
Contains(text, keyword) ==
    \E i \in 1 .. Len(text) - Len(keyword) + 1 : At(text, i, keyword)

\* the inner loop of lines 114-122 and 129-137 finds a keyword of the tier
AnyKeywordIn(keywords, text) ==
    \E k \in 1 .. Len(keywords) : Contains(text, keywords[k])

\* \d{n} at position i
DigitsAt(t, i, n) == \A k \in 0 .. n - 1 : i + k <= Len(t) /\ t[i + k] \in Digits

\* the positions just behind a match of `due (?:on|by)? ` that starts at i
AfterDue(t, i) ==
    { i + Len(S_due) + Len(o) + 1 : o \in
        { o \in {<<>>, S_on, S_by} :
            /\ At(t, i, S_due)
            /\ At(t, i + Len(S_due), o)
            /\ At(t, i + Len(S_due) + Len(o), S_sp) } }

\* r'due (?:on|by)? (\d{1,2}(?:st|nd|rd|th)? (?:jan|...|dec))'
DatePattern1(t) ==
    \E i \in 1 .. Len(t) : \E j \in AfterDue(t, i) : \E n \in 1 .. 2 :
        /\ DigitsAt(t, j, n)
        /\ \E suffix \in {<<>>, S_st, S_nd, S_rd, S_th} :
              /\ At(t, j + n, suffix)
              /\ At(t, j + n + Len(suffix), S_sp)
              /\ \E m \in 1 .. Len(MonthNames) :
                    At(t, j + n + Len(suffix) + 1, MonthNames[m])

\* r'due (?:on|by)? (\d{1,2}/\d{1,2}(?:/\d{2,4})?)'
DatePattern2(t) ==
    \E i \in 1 .. Len(t) : \E j \in AfterDue(t, i) : \E n \in 1 .. 2 :
        /\ DigitsAt(t, j, n)
        /\ At(t, j + n, S_slash)
        /\ DigitsAt(t, j + n + 1, 1)

\* r'by (?:this|next) (monday|...|sunday)'
DatePattern3(t) ==
    \E i \in 1 .. Len(t) : \E w \in {S_this, S_next} :
        /\ At(t, i, S_by_)
        /\ At(t, i + Len(S_by_), w)
        /\ At(t, i + Len(S_by_) + Len(w), S_sp)
        /\ \E d \in 1 .. Len(WeekdayNames) :
              At(t, i + Len(S_by_) + Len(w) + 1, WeekdayNames[d])

\* r'(?:this|next) (week|month)'
DatePattern4(t) ==
    \E i \in 1 .. Len(t) : \E w \in {S_this, S_next} : \E u \in {S_week, S_month} :
        /\ At(t, i, w)
        /\ At(t, i + Len(w), S_sp)
        /\ At(t, i + Len(w) + 1, u)

\* the loop of lines 149-153 finds a pattern that matches
AnyDatePattern(t) ==
    DatePattern1(t) \/ DatePattern2(t) \/ DatePattern3(t) \/ DatePattern4(t)

Mut_DateBoost(urgency) == urgency + 1

Mut_DateBoostAssign(urgency) == 4

\* line 152
DateBoost(urgency) == Max(urgency, 4)

\* the keyword dicts, in the order their items() are iterated
importance_keywords ==
    << [level |-> "high", keywords |-> importance_high],
       [level |-> "medium", keywords |-> importance_medium],
       [level |-> "low", keywords |-> importance_low] >>

urgency_keywords ==
    << [level |-> "high", keywords |-> urgency_high],
       [level |-> "medium", keywords |-> urgency_medium],
       [level |-> "low", keywords |-> urgency_low] >>

\* the assignment of lines 116-121 and 131-136
LevelScore(level) ==
    IF level = "high" THEN 5 ELSE IF level = "medium" THEN 3 ELSE 1

\* the outer loop of lines 113-124 and 128-139 over the remaining tiers,
\* entered with the score so far; it is left once the score is not 3
RECURSIVE TierLoop(_, _, _)
TierLoop(text, tiers, score) ==
    IF tiers = <<>> THEN score
    ELSE LET tier == Head(tiers)
             after == IF AnyKeywordIn(tier.keywords, text)
                      THEN LevelScore(tier.level) ELSE score
         IN IF after # 3 THEN after ELSE TierLoop(text, Tail(tiers), after)

\* " ".join(words)
RECURSIVE Join(_)
Join(words) ==
    IF words = <<>> THEN <<>>
    ELSE IF Len(words) = 1 THEN words[1]
    ELSE words[1] \o S_sp \o Join(Tail(words))

WordSet == {Vocabulary[k] : k \in 1 .. Len(Vocabulary)}

\* titles of at most MaxTitleWords words, descriptions of at most one word
Titles == { Join(ws) : ws \in UNION { [1 .. n -> WordSet] : n \in 0 .. MaxTitleWords } }
Descriptions == {<<>>} \cup {DescriptionWords[k] : k \in 1 .. Len(DescriptionWords)}

\* the arguments of a call that is about to be made
EInput(task_title, task_description) ==
    [op |-> "input", task_title |-> task_title, task_description |-> task_description,
     text |-> <<>>, importance |-> 3, tier_urgency |-> 3, urgency |-> 3]

estimate_task_parameters(task_title, task_description) ==
    LET text == Lower(task_title \o S_sp \o task_description)
        importance == TierLoop(text, importance_keywords, 3)
        tier_urgency == TierLoop(text, urgency_keywords, 3)
        urgency == IF AnyDatePattern(text) THEN DateBoost(tier_urgency) ELSE tier_urgency
    IN ecall' = [op |-> "estimate_task_parameters",
                 task_title |-> task_title, task_description |-> task_description,
                 text |-> text, importance |-> importance,
                 tier_urgency |-> tier_urgency, urgency |-> urgency]

EstimateTaskParameters ==
    /\ ecall.op = "input"
    /\ estimate_task_parameters(ecall.task_title, ecall.task_description)
    /\ UNCHANGED <<hvars, rvars, xvars, tvars>>

EInit ==
    \E task_title \in Titles, task_description \in Descriptions :
        ecall = EInput(task_title, task_description)

ENext == EstimateTaskParameters

InitEstimate == EInit /\ HInit /\ RIdle /\ XIdle /\ TIdle

SpecEstimate == InitEstimate /\ [][ENext]_vars

-----------------------------------------------------------------------------
(* Claims about estimate_task_parameters.                                  *)

Estimated == ecall.op = "estimate_task_parameters"

\* C8: the importance returned is one of 1, 3, 5 and the urgency returned
\* is one of 1, 3, 4, 5, so both are integers in 1 .. 5.
C8_ScoreRange ==
    Estimated =>
        /\ ecall.importance \in {1, 3, 5}
        /\ ecall.urgency \in {1, 3, 4, 5}
        /\ ecall.importance \in 1 .. 5
        /\ ecall.urgency \in 1 .. 5

\* a text with a low importance keyword and a date reference: importance 1
\* and urgency 4
C8_Witness ==
    /\ Estimated
    /\ AnyKeywordIn(importance_low, ecall.text)
    /\ AnyDatePattern(ecall.text)
    /\ ecall.importance = 1
    /\ ecall.urgency = 4

\* the score of the first tier, in the order high, medium, low, that has a
\* keyword in the text; 3 when no tier has one
FirstTierScore(text, high, medium, low) ==
    IF AnyKeywordIn(high, text) THEN 5
    ELSE IF AnyKeywordIn(medium, text) THEN 3
    ELSE IF AnyKeywordIn(low, text) THEN 1
    ELSE 3

\* C9: the first tier, in the order high, medium, low, with a keyword in
\* the text decides the importance and the urgency before the date step;
\* a text with a medium and a low keyword and no high keyword scores 3.
C9_FirstTierWins ==
    Estimated =>
        /\ ecall.importance =
              FirstTierScore(ecall.text, importance_high, importance_medium, importance_low)
        /\ ecall.tier_urgency =
              FirstTierScore(ecall.text, urgency_high, urgency_medium, urgency_low)

\* C10: the date step never lowers urgency: with a date pattern in the text
\* the urgency returned is max(tier urgency, 4), without one it is the tier
\* urgency; a high urgency keyword gives urgency 5; the importance is
\* decided by the importance keywords alone.
C10_DateStep ==
    Estimated =>
        /\ ecall.urgency >= ecall.tier_urgency
        /\ AnyDatePattern(ecall.text) => ecall.urgency = Max(ecall.tier_urgency, 4)
        /\ ~AnyDatePattern(ecall.text) => ecall.urgency = ecall.tier_urgency
        /\ AnyKeywordIn(urgency_high, ecall.text) => ecall.urgency = 5
        /\ ecall.importance =
              IF AnyKeywordIn(importance_high, ecall.text) THEN 5
              ELSE IF AnyKeywordIn(importance_low, ecall.text) THEN 1
              ELSE 3

\* a text with a high urgency keyword and a date reference keeps urgency 5
C10_Witness ==
    /\ Estimated
    /\ AnyKeywordIn(urgency_high, ecall.text)
    /\ AnyDatePattern(ecall.text)
    /\ ecall.tier_urgency = 5
    /\ ecall.urgency = 5

-----------------------------------------------------------------------------
(* estimate_task_duration (utils/task_classifier.py).                      *)

\* a string of n characters; only len() of a title or description is used
StringOfLength(n) == [i \in 1 .. n |-> "x"]

\* title and description lengths on both sides of the tests of lines 246,
\* 248 and 253
TitleLengths == {0, 19, 20, 50, 51}
DescriptionLengths == {0, 200, 201}
Ratings == 1 .. 5

\* the task dicts a duration is estimated for: every field present or missing
DurationTasks ==
    { [f \in fs |-> CASE f = "importance" -> i
                      [] f = "urgency" -> u
                      [] f = "title" -> StringOfLength(t)
                      [] f = "description" -> StringOfLength(d)] :
        fs \in SUBSET {"importance", "urgency", "title", "description"},
        i \in Ratings, u \in Ratings,
        t \in TitleLengths, d \in DescriptionLengths }

Mut_RatingDuration(importance, urgency) ==
    IF importance >= 4 \/ urgency >= 4 THEN 90 ELSE 60

\* lines 231-242: 60, 90 for an important or urgent task, 30 for a task that
\* is neither
RatingDuration(importance, urgency) ==
    IF importance >= 4 \/ urgency >= 4 THEN 90
    ELSE IF importance <= 2 /\ urgency <= 2 THEN 30
    ELSE 60

\* lines 245-249
TitleAdjusted(duration, title_length) ==
    IF title_length > 50 THEN duration + 30
    ELSE IF title_length < 20 THEN duration - 15
    ELSE duration

\* lines 252-254
DescriptionAdjusted(duration, description_length) ==
    IF description_length > 200 THEN duration + 30 ELSE duration

estimate_task_duration(task) ==
    LET importance == Get(task, "importance", 3)
        urgency == Get(task, "urgency", 3)
        duration1 == RatingDuration(importance, urgency)
        title_length == Len(Get(task, "title", <<>>))
        duration2 == TitleAdjusted(duration1, title_length)
        description_length == Len(Get(task, "description", <<>>))
        duration3 == DescriptionAdjusted(duration2, description_length)
    IN Max(15, duration3)

EstimateTaskDuration ==
    /\ dcall.op = "input"
    /\ dcall' = [dcall EXCEPT !.op = "estimate_task_duration",
                              !.result = estimate_task_duration(dcall.task)]
    /\ UNCHANGED <<hvars, rvars, evars, svars, cvars, pvars, tvars>>

DInit ==
    \E task \in DurationTasks : dcall = [op |-> "input", task |-> task, result |-> 0]

DNext == EstimateTaskDuration

InitDuration == DInit /\ HInit /\ RIdle /\ EIdle /\ SIdle /\ CIdle /\ PIdle /\ TIdle

SpecDuration == InitDuration /\ [][DNext]_vars

-----------------------------------------------------------------------------
(* suggest_time_slot (utils/task_classifier.py).                           *)
(*                                                                         *)
(* A datetime is a number of minutes since 00:00 of the day of the call,   *)
(* so that today is day 0 and tomorrow is day 1.  The ISO string of a      *)
(* datetime is the triple of its day, hour and minute; the empty string    *)
(* is a string that datetime.fromisoformat rejects.                        *)

MaxEvents == 2

DateTime(day, hour, minute) == (day * 24 + hour) * 60 + minute
HourOf(t) == (t % (24 * 60)) \div 60

IsoDateTime(day, hour, minute) == <<day, hour, minute>>
NotADate == <<>>

\* datetime.fromisoformat: a ValueError for a string that is not a date
datetime_fromisoformat(s) ==
    IF Len(s) = 3 THEN [raised |-> "None", value |-> DateTime(s[1], s[2], s[3])]
    ELSE [raised |-> "ValueError", value |-> 0]

\* list(range(a, b))
range(a, b) == [i \in 1 .. (b - a) |-> a + i - 1]

Mut_peak_hours(productivity_peak) == range(9, 17)

\* lines 169-177: peak_hours.get(productivity_peak, range(9, 17))
peak_hours(productivity_peak) ==
    CASE productivity_peak = "Morning" -> range(8, 12)
      [] productivity_peak = "Afternoon" -> range(12, 17)
      [] productivity_peak = "Evening" -> range(17, 22)
      [] productivity_peak = "Night" -> range(20, 24)
      [] OTHER -> range(9, 17)

\* lines 185-190: the event is kept when both strings parse
Parseable(event) ==
    /\ datetime_fromisoformat(event.start_time).raised = "None"
    /\ datetime_fromisoformat(event.end_time).raised = "None"

\* lines 182-190: the (start, end) pairs of the events that parse
RECURSIVE event_periods(_)
event_periods(existing_events) ==
    IF existing_events = <<>> THEN <<>>
    ELSE LET event == Head(existing_events)
             others == event_periods(Tail(existing_events))
         IN IF Parseable(event)
            THEN <<<<datetime_fromisoformat(event.start_time).value,
                     datetime_fromisoformat(event.end_time).value>>>> \o others
            ELSE others

\* lines 202-203
Conflicts(potential_start, potential_end, periods) ==
    \E k \in DOMAIN periods :
        LET start == periods[k][1]
            end == periods[k][2]
        IN \/ start <= potential_start /\ potential_start < end
           \/ start < potential_end /\ potential_end <= end

\* the days the loop of line 196 looks ahead
ScanDays == 7

\* a scan that answers the last preferred hour of the day it starts from
Mut_ScanFrom(n, j, preferred_hours, periods) ==
    [found |-> TRUE,
     start |-> DateTime(1 + n, 0, 0) + 60 * preferred_hours[Len(preferred_hours)]]

\* lines 196-207 from the n-th day after tomorrow and the j-th preferred
\* hour on: the first slot without a conflict, if there is one
RECURSIVE ScanFrom(_, _, _, _)
ScanFrom(n, j, preferred_hours, periods) ==
    IF n >= ScanDays THEN [found |-> FALSE, start |-> 0]
    ELSE IF j > Len(preferred_hours) THEN ScanFrom(n + 1, 1, preferred_hours, periods)
    ELSE LET potential_start == DateTime(1 + n, 0, 0) + 60 * preferred_hours[j]
             potential_end == potential_start + 60
         IN IF ~Conflicts(potential_start, potential_end, periods)
            THEN [found |-> TRUE, start |-> potential_start]
            ELSE ScanFrom(n, j + 1, preferred_hours, periods)

Mut_FallbackStart(preferred_hours) ==
    DateTime(1, 0, 0) + 60 * preferred_hours[Len(preferred_hours)]

\* lines 210-211: tomorrow at preferred_hours[0]
FallbackStart(preferred_hours) == DateTime(1, 0, 0) + 60 * preferred_hours[1]

Mut_DefaultDate(now_hour, preferred_hour) ==
    IF now_hour > preferred_hour THEN 1 ELSE 0

\* lines 214, 218-219: today, or tomorrow once the hour of now has reached
\* the preferred hour
DefaultDate(now_hour, preferred_hour) ==
    IF now_hour >= preferred_hour THEN 1 ELSE 0

\* what a call returns, and the return statement it came from
SlotResult(type, value, duration, branch) ==
    [start |-> [type |-> type, value |-> value], duration |-> duration,
     branch |-> branch]

\* now_hour is datetime.now().hour
suggest_time_slot(task, user_profile, existing_events, now_hour) ==
    IF DOMAIN user_profile = {}
    THEN \* lines 159-163: `return start_hour, task_duration`, an int
         SlotResult("int", 9, 60, "no_profile")
    ELSE
    LET productivity_peak == Get(user_profile, "productivity_peak", "Morning")
        preferred_hours == peak_hours(productivity_peak)
    IN
    IF existing_events # <<>>
    THEN LET periods == event_periods(existing_events)
             scan == ScanFrom(0, 1, preferred_hours, periods)
         IN IF scan.found
            THEN SlotResult("datetime", scan.start, 60, "scan")
            ELSE SlotResult("datetime", FallbackStart(preferred_hours), 60, "fallback")
    ELSE
    LET preferred_hour == IF preferred_hours # <<>> THEN preferred_hours[1] ELSE 9
        current_date == DefaultDate(now_hour, preferred_hour)
        suggested_time == DateTime(current_date, 0, 0) + 60 * preferred_hour
    IN SlotResult("datetime", suggested_time, estimate_task_duration(task), "no_events")

\* the tasks a slot is asked for: an empty dict and an important task with a
\* long title
SlotTasks == { <<>>, [importance |-> 5, title |-> StringOfLength(51)] }

\* the profiles: empty, without the key, the four peaks and another value
SlotProfiles ==
    { <<>>, [name |-> "User"] }
    \cup { [productivity_peak |-> p] :
             p \in {"Morning", "Afternoon", "Evening", "Night", "Flexible"} }

\* events around tomorrow's 08:00 slot, one that fills the whole week, and
\* events with a string that is not a date
SlotEvents ==
    { [start_time |-> IsoDateTime(1, 8, 15), end_time |-> IsoDateTime(1, 8, 45)],
      [start_time |-> IsoDateTime(1, 8, 0), end_time |-> IsoDateTime(1, 9, 0)],
      [start_time |-> IsoDateTime(1, 7, 30), end_time |-> IsoDateTime(1, 8, 30)],
      [start_time |-> IsoDateTime(1, 8, 30), end_time |-> IsoDateTime(1, 9, 30)],
      [start_time |-> IsoDateTime(1, 9, 0), end_time |-> IsoDateTime(1, 12, 0)],
      [start_time |-> IsoDateTime(1, 0, 0), end_time |-> IsoDateTime(8, 0, 0)],
      [start_time |-> NotADate, end_time |-> IsoDateTime(1, 9, 0)],
      [start_time |-> IsoDateTime(1, 8, 0), end_time |-> NotADate] }

SlotEventLists == UNION { [1 .. n -> SlotEvents] : n \in 0 .. MaxEvents }

\* the hour of the clock at the call: before every peak, and past the first
\* hour of the morning and afternoon peaks
NowHours == {7, 12}

SuggestTimeSlot ==
    /\ scall.op = "input"
    /\ LET r == suggest_time_slot(scall.task, scall.user_profile,
                                  scall.existing_events, scall.now_hour)
       IN scall' = [scall EXCEPT !.op = "suggest_time_slot", !.start = r.start,
                                 !.duration = r.duration, !.branch = r.branch]
    /\ UNCHANGED <<hvars, rvars, evars, dvars, cvars, pvars, tvars>>

SInit ==
    \E task \in SlotTasks, user_profile \in SlotProfiles,
       existing_events \in SlotEventLists, now_hour \in NowHours :
        scall = [op |-> "input", task |-> task, user_profile |-> user_profile,
                 existing_events |-> existing_events, now_hour |-> now_hour,
                 start |-> [type |-> "NoneType", value |-> 0], duration |-> 0,
                 branch |-> "none"]

SNext == SuggestTimeSlot

InitSlot == SInit /\ HInit /\ RIdle /\ EIdle /\ DIdle /\ CIdle /\ PIdle /\ TIdle

SpecSlot == InitSlot /\ [][SNext]_vars

-----------------------------------------------------------------------------
(* Claims about estimate_task_duration.                                    *)

DurationEstimated == dcall.op = "estimate_task_duration"

\* C14: for every task (importance and urgency in 1..5 or missing, any title
\* and description length) the result is: 60, or 90 if importance >= 4 or
\* urgency >= 4, else 30 if importance <= 2 and urgency <= 2; plus 30 if the
\* title is longer than 50, minus 15 if it is shorter than 20; plus 30 if the
\* description is longer than 200; and it is at least 15 and at most 150.
C14_DurationFormula ==
    DurationEstimated =>
        LET task == dcall.task
            importance == IF "importance" \in DOMAIN task THEN task.importance ELSE 3
            urgency == IF "urgency" \in DOMAIN task THEN task.urgency ELSE 3
            title_length == IF "title" \in DOMAIN task THEN Len(task.title) ELSE 0
            description_length ==
                IF "description" \in DOMAIN task THEN Len(task.description) ELSE 0
            base == CASE importance >= 4 \/ urgency >= 4 -> 90
                      [] importance < 4 /\ urgency < 4 /\ importance <= 2 /\ urgency <= 2 -> 30
                      [] OTHER -> 60
            title_part == CASE title_length > 50 -> 30
                            [] title_length < 20 -> 0 - 15
                            [] OTHER -> 0
            description_part == IF description_length > 200 THEN 30 ELSE 0
        IN /\ dcall.result = base + title_part + description_part
           /\ dcall.result >= 15
           /\ dcall.result <= 150

\* a short title on a task that is neither important nor urgent: 30 - 15
C14_Witness ==
    /\ DurationEstimated
    /\ dcall.result = 15
    /\ Get(dcall.task, "importance", 3) <= 2
    /\ Get(dcall.task, "urgency", 3) <= 2
    /\ Len(Get(dcall.task, "title", <<>>)) < 20

-----------------------------------------------------------------------------
(* Claims about suggest_time_slot.                                         *)

SlotSuggested == scall.op = "suggest_time_slot"

\* the intervals [a, b) and [c, d) have a point in common
Intersect(a, b, c, d) == a < b /\ c < d /\ a < d /\ c < b

\* C11: with a non-empty profile and a non-empty events list, a slot
\* returned by the 7-day scan, [start, start + 60min), does not intersect
\* [start_time, end_time) of any parseable event, events strictly inside the
\* candidate hour included.
C11_SlotIsFree ==
    (SlotSuggested /\ scall.branch = "scan") =>
        \A k \in DOMAIN scall.existing_events :
            LET event == scall.existing_events[k]
            IN Parseable(event) =>
                  ~Intersect(scall.start.value, scall.start.value + 60,
                             datetime_fromisoformat(event.start_time).value,
                             datetime_fromisoformat(event.end_time).value)

\* C12: the first component returned is always a datetime, also for an
\* absent or empty profile, where its hour is taken from 9 .. 16.
C12_StartIsDatetime ==
    SlotSuggested =>
        /\ scall.start.type = "datetime"
        /\ DOMAIN scall.user_profile = {} => HourOf(scall.start.value) \in 9 .. 16

\* the hours of a peak, as the claim lists them
PeakRange(user_profile) ==
    IF "productivity_peak" \notin DOMAIN user_profile THEN 8 .. 11
    ELSE CASE user_profile.productivity_peak = "Morning" -> 8 .. 11
           [] user_profile.productivity_peak = "Afternoon" -> 12 .. 16
           [] user_profile.productivity_peak = "Evening" -> 17 .. 21
           [] user_profile.productivity_peak = "Night" -> 20 .. 23
           [] OTHER -> 9 .. 16

\* C13: for a non-empty profile the hour of the returned start lies in the
\* range of the profile's productivity_peak (Morning when the key is
\* missing, 9 .. 16 for any other value), in every branch: no events, a slot
\* found by the scan, the 7-day fallback.
C13_HourInPeak ==
    (SlotSuggested /\ DOMAIN scall.user_profile # {}) =>
        /\ scall.start.type = "datetime"
        /\ HourOf(scall.start.value) \in PeakRange(scall.user_profile)
        /\ scall.branch \in {"no_events", "scan", "fallback"}

\* the fallback after a full week answers an evening profile at 17:00
C13_Witness ==
    /\ SlotSuggested
    /\ scall.branch = "fallback"
    /\ scall.user_profile = [productivity_peak |-> "Evening"]
    /\ HourOf(scall.start.value) = 17

\* the events list without the events that do not parse
ParseableOnly(existing_events) == SelectSeq(existing_events, Parseable)

\* C15: an event whose start_time or end_time cannot be parsed is ignored:
\* the result (start and duration) equals the result of the same call with
\* every unparseable event removed, also when all events are unparseable.
C15_UnparseableIgnored ==
    SlotSuggested =>
        LET without == suggest_time_slot(scall.task, scall.user_profile,
                                         ParseableOnly(scall.existing_events),
                                         scall.now_hour)
        IN /\ scall.start = without.start
           /\ scall.duration = without.duration

\* the hours a non-empty profile prefers
PreferredHours(user_profile) ==
    peak_hours(Get(user_profile, "productivity_peak", "Morning"))

\* the i-th candidate of the scan, counted from 0: day by day from tomorrow,
\* and within a day in the order of the preferred hours
Candidate(i, preferred_hours) ==
    DateTime(1 + (i \div Len(preferred_hours)), 0, 0)
        + 60 * preferred_hours[1 + (i % Len(preferred_hours))]

\* the conflict test accepts the candidate
Accepted(potential_start, existing_events) ==
    ~Conflicts(potential_start, potential_start + 60, event_periods(existing_events))

\* the positions of the candidates the test accepts
AcceptedCandidates(user_profile, existing_events) ==
    LET preferred_hours == PreferredHours(user_profile)
    IN { i \in 0 .. (ScanDays * Len(preferred_hours) - 1) :
           Accepted(Candidate(i, preferred_hours), existing_events) }

ScanCase ==
    /\ SlotSuggested
    /\ DOMAIN scall.user_profile # {}
    /\ scall.existing_events # <<>>

\* C21: with a non-empty profile and a non-empty events list the candidates
\* are taken day by day from tomorrow through tomorrow+6 and, within a day,
\* in ascending preferred-hour order; the call returns the first candidate
\* the conflict test accepts (no earlier candidate is accepted), the start is
\* never today, and the duration is 60 whatever the task.
C21_FirstAccepted ==
    ScanCase =>
        LET preferred_hours == PreferredHours(scall.user_profile)
            accepted == AcceptedCandidates(scall.user_profile, scall.existing_events)
        IN /\ \A j \in 1 .. (Len(preferred_hours) - 1) :
                  preferred_hours[j] < preferred_hours[j + 1]
           /\ scall.duration = 60
           /\ scall.start.type = "datetime"
           /\ scall.start.value >= DateTime(1, 0, 0)
           /\ accepted # {} =>
                 \E i \in accepted :
                    /\ scall.start.value = Candidate(i, preferred_hours)
                    /\ \A e \in accepted : i <= e

\* the scan passed over tomorrow 08:00 and 09:00, which an event covers,
\* and answered 10:00 for the task with a long title
C21_Witness ==
    /\ ScanCase
    /\ scall.branch = "scan"
    /\ scall.task # <<>>
    /\ ~Accepted(DateTime(1, 8, 0), scall.existing_events)
    /\ ~Accepted(DateTime(1, 9, 0), scall.existing_events)
    /\ scall.start.value = DateTime(1, 10, 0)

\* C22: when the conflict test rejects every candidate of the 7 scanned
\* days, the call still returns: tomorrow at the first preferred hour, with
\* duration 60, although that slot conflicts with an event.
C22_FallbackTomorrow ==
    (ScanCase /\ AcceptedCandidates(scall.user_profile, scall.existing_events) = {}) =>
        /\ scall.start.type = "datetime"
        /\ scall.start.value
              = DateTime(1, 0, 0) + 60 * PreferredHours(scall.user_profile)[1]
        /\ scall.duration = 60
        /\ ~Accepted(scall.start.value, scall.existing_events)

\* a week-long event rejects all candidates of an afternoon profile
C22_Witness ==
    /\ ScanCase
    /\ AcceptedCandidates(scall.user_profile, scall.existing_events) = {}
    /\ scall.branch = "fallback"
    /\ scall.user_profile = [productivity_peak |-> "Afternoon"]
    /\ scall.start.value = DateTime(1, 12, 0)

\* the latest instant of the hour of now
EndOfHour(now_hour) == DateTime(0, now_hour, 59)

\* C23: with a non-empty profile and no events the call returns the first
\* preferred hour of today when the hour of now is less than that hour and
\* the first preferred hour of tomorrow otherwise, so that the start is
\* strictly later than now, and the duration is estimate_task_duration(task).
C23_NoEventsDefault ==
    (SlotSuggested /\ DOMAIN scall.user_profile # {} /\ scall.existing_events = <<>>) =>
        LET first == PreferredHours(scall.user_profile)[1]
        IN /\ scall.start.type = "datetime"
           /\ scall.now_hour < first => scall.start.value = DateTime(0, first, 0)
           /\ scall.now_hour >= first => scall.start.value = DateTime(1, first, 0)
           /\ scall.start.value > EndOfHour(scall.now_hour)
           /\ scall.duration = estimate_task_duration(scall.task)

\* at 12 o'clock an afternoon profile, whose first hour is 12, is answered
\* tomorrow
C23_Witness ==
    /\ SlotSuggested
    /\ scall.existing_events = <<>>
    /\ scall.user_profile = [productivity_peak |-> "Afternoon"]
    /\ scall.now_hour = 12
    /\ scall.start.value = DateTime(1, 12, 0)
    /\ scall.duration = estimate_task_duration(scall.task)

-----------------------------------------------------------------------------
(* classify_task, keyword path (utils/task_classifier.py).  The path taken *)
(* with ten or more existing tasks fits a classifier and is not part of    *)
(* this model.                                                             *)

MaxCategories == 2

\* CATEGORY_KEYWORDS, in the order of the dict
CATEGORY_KEYWORDS ==
    << [category_name |-> <<"w", "o", "r", "k">>,
        keywords |-> << <<"m", "e", "e", "t", "i", "n", "g">>,
                      <<"p", "r", "o", "j", "e", "c", "t">>,
                      <<"r", "e", "p", "o", "r", "t">>,
                      <<"p", "r", "e", "s", "e", "n", "t", "a", "t", "i", "o", "n">>,
                      <<"c", "l", "i", "e", "n", "t">>,
                      <<"b", "o", "s", "s">>,
                      <<"d", "e", "a", "d", "l", "i", "n", "e">>,
                      <<"e", "m", "a", "i", "l">>,
                      <<"c", "a", "l", "l">>,
                      <<"o", "f", "f", "i", "c", "e">> >>],
       [category_name |-> <<"p", "e", "r", "s", "o", "n", "a", "l">>,
        keywords |-> << <<"h", "o", "m", "e">>,
                      <<"f", "a", "m", "i", "l", "y">>,
                      <<"f", "r", "i", "e", "n", "d">>,
                      <<"s", "h", "o", "p", "p", "i", "n", "g">>,
                      <<"c", "l", "e", "a", "n">>,
                      <<"a", "p", "p", "o", "i", "n", "t", "m", "e", "n", "t">>,
                      <<"p", "e", "r", "s", "o", "n", "a", "l">>,
                      <<"p", "a", "r", "t", "y">>,
                      <<"v", "i", "s", "i", "t">>,
                      <<"s", "o", "c", "i", "a", "l">> >>],
       [category_name |-> <<"h", "e", "a", "l", "t", "h">>,
        keywords |-> << <<"e", "x", "e", "r", "c", "i", "s", "e">>,
                      <<"w", "o", "r", "k", "o", "u", "t">>,
                      <<"g", "y", "m">>,
                      <<"r", "u", "n">>,
                      <<"j", "o", "g">>,
                      <<"s", "w", "i", "m">>,
                      <<"d", "o", "c", "t", "o", "r">>,
                      <<"d", "e", "n", "t", "i", "s", "t">>,
                      <<"m", "e", "a", "l">>,
                      <<"d", "i", "e", "t">>,
                      <<"s", "l", "e", "e", "p">>,
                      <<"r", "e", "s", "t">>,
                      <<"m", "e", "d", "i", "t", "a", "t", "e">> >>],
       [category_name |-> <<"l", "e", "a", "r", "n", "i", "n", "g">>,
        keywords |-> << <<"s", "t", "u", "d", "y">>,
                      <<"l", "e", "a", "r", "n">>,
                      <<"r", "e", "a", "d">>,
                      <<"b", "o", "o", "k">>,
                      <<"c", "o", "u", "r", "s", "e">>,
                      <<"c", "l", "a", "s", "s">>,
                      <<"l", "e", "c", "t", "u", "r", "e">>,
                      <<"t", "u", "t", "o", "r", "i", "a", "l">>,
                      <<"h", "o", "m", "e", "w", "o", "r", "k">>,
                      <<"a", "s", "s", "i", "g", "n", "m", "e", "n", "t">> >>] >>

\* the titles that are classified: without a keyword, with keywords of one
\* domain, with keywords of two domains
ClassifyTitles ==
    { <<>>,
      <<"T", "e", "a", "m", " ", "m", "e", "e", "t", "i", "n", "g", " ", "w", "i", "t", "h", " ", "c", "l", "i", "e", "n", "t">>,
      <<"g", "y", "m">>,
      <<"R", "e", "a", "d", " ", "a", " ", "b", "o", "o", "k", " ", "a", "t", " ", "h", "o", "m", "e">>,
      <<"p", "l", "a", "n">>,
      <<"H", "o", "m", "e", "w", "o", "r", "k">> }

\* the names categories are given in Settings; the page accepts a name that
\* is already taken
CategoryNames ==
    { <<"W", "o", "r", "k">>,
      <<"w", "o", "r", "k">>,
      <<"P", "e", "r", "s", "o", "n", "a", "l">>,
      <<"H", "e", "a", "l", "t", "h", "y">>,
      <<"E", "r", "r", "a", "n", "d", "s">> }

\* lists of categories; the id of a category is the uuid it was created
\* with, here the number of its creation
CategoryLists ==
    { [k \in 1 .. Len(names) |-> [id |-> k, name |-> names[k]]] :
        names \in UNION { [1 .. n -> CategoryNames] : n \in 0 .. MaxCategories } }

\* the position of key in a dict given as a sequence of keys, 0 if absent
KeyIndex(keys, key) ==
    IF \E k \in 1 .. Len(keys) : keys[k] = key
    THEN CHOOSE k \in 1 .. Len(keys) : keys[k] = key /\ \A j \in 1 .. k - 1 : keys[j] # key
    ELSE 0

\* line 58: the dict comprehension; a name met again keeps its place among
\* the keys and takes the later id
RECURSIVE category_id_map(_, _)
category_id_map(categories, map) ==
    IF categories = <<>> THEN map
    ELSE LET category == Head(categories)
             name == Lower(category.name)
             p == KeyIndex(map.keys, name)
         IN category_id_map(Tail(categories),
                IF p = 0
                THEN [keys |-> Append(map.keys, name), ids |-> Append(map.ids, category.id)]
                ELSE [map EXCEPT !.ids[p] = category.id])

\* lines 79-91; the result is a key, or the empty string for None
find_best_category_match(keyword_category, available_categories) ==
    IF KeyIndex(available_categories, keyword_category) # 0 THEN keyword_category
    ELSE IF \E k \in 1 .. Len(available_categories) :
                \/ Contains(available_categories[k], keyword_category)
                \/ Contains(keyword_category, available_categories[k])
    THEN available_categories[
            CHOOSE k \in 1 .. Len(available_categories) :
                /\ \/ Contains(available_categories[k], keyword_category)
                   \/ Contains(keyword_category, available_categories[k])
                /\ \A j \in 1 .. k - 1 :
                      /\ ~Contains(available_categories[j], keyword_category)
                      /\ ~Contains(keyword_category, available_categories[j])]
    ELSE IF available_categories # <<>> THEN available_categories[1]
    ELSE <<>>

\* lines 63-69 from the d-th domain and its j-th keyword on
RECURSIVE ScoreLoop(_, _, _, _, _)
ScoreLoop(d, j, task_title_lower, keys, category_scores) ==
    IF d > Len(CATEGORY_KEYWORDS) THEN category_scores
    ELSE IF j > Len(CATEGORY_KEYWORDS[d].keywords)
    THEN ScoreLoop(d + 1, 1, task_title_lower, keys, category_scores)
    ELSE LET keyword == CATEGORY_KEYWORDS[d].keywords[j]
             best_match == find_best_category_match(CATEGORY_KEYWORDS[d].category_name, keys)
         IN ScoreLoop(d, j + 1, task_title_lower, keys,
                IF Contains(task_title_lower, keyword) /\ best_match # <<>>
                THEN [category_scores EXCEPT ![KeyIndex(keys, best_match)] = @ + 1]
                ELSE category_scores)

\* line 73: max(category_scores.items(), key=...) is the first item with the
\* largest score
FirstMax(category_scores) ==
    CHOOSE k \in 1 .. Len(category_scores) :
        /\ \A j \in 1 .. Len(category_scores) : category_scores[j] <= category_scores[k]
        /\ \A j \in 1 .. k - 1 : category_scores[j] < category_scores[k]

classify_task(task_title, categories) ==
    IF categories = <<>> THEN None
    ELSE
    LET task_title_lower == Lower(task_title)
        map == category_id_map(categories, [keys |-> <<>>, ids |-> <<>>])
        zero == [k \in 1 .. Len(map.keys) |-> 0]
        category_scores == ScoreLoop(1, 1, task_title_lower, map.keys, zero)
    IN IF \E k \in 1 .. Len(category_scores) : category_scores[k] # 0
       THEN map.ids[FirstMax(category_scores)]
       ELSE categories[1].id

ClassifyTask ==
    /\ ccall.op = "input"
    /\ ccall' = [ccall EXCEPT !.op = "classify_task",
                              !.result = classify_task(ccall.task_title, ccall.categories)]
    /\ UNCHANGED <<hvars, rvars, evars, svars, dvars, pvars, tvars>>

CInit ==
    \E task_title \in ClassifyTitles, categories \in CategoryLists :
        ccall = [op |-> "input", task_title |-> task_title,
                 categories |-> categories, result |-> None]

CNext == ClassifyTask

InitClassify == CInit /\ HInit /\ RIdle /\ EIdle /\ SIdle /\ DIdle /\ PIdle /\ TIdle

SpecClassify == InitClassify /\ [][CNext]_vars

-----------------------------------------------------------------------------
(* Claims about classify_task.                                             *)

Classified == ccall.op = "classify_task"

\* the keyword score of the k-th category: the keyword hits of the domains
\* that are mapped to its lower-cased name
CategoryScore(task_title, categories, k) ==
    LET keys == category_id_map(categories, [keys |-> <<>>, ids |-> <<>>]).keys
    IN Cardinality(
        { <<d, j>> \in (1 .. Len(CATEGORY_KEYWORDS)) \X (1 .. 13) :
            /\ j <= Len(CATEGORY_KEYWORDS[d].keywords)
            /\ Contains(Lower(task_title), CATEGORY_KEYWORDS[d].keywords[j])
            /\ find_best_category_match(CATEGORY_KEYWORDS[d].category_name, keys)
                  = Lower(categories[k].name) })

\* C16: with a non-empty categories list the keyword path returns the id of
\* the category with the highest keyword score, the first of them in the
\* categories list when several share it, and categories[0].id when no
\* keyword occurs in the title; the id returned is the id of one of the
\* supplied categories, and None is returned only for an empty list.
C16_HighestScoreFirst ==
    Classified =>
        LET categories == ccall.categories
            score(k) == CategoryScore(ccall.task_title, categories, k)
            best == CHOOSE k \in 1 .. Len(categories) :
                        /\ \A j \in 1 .. Len(categories) : score(j) <= score(k)
                        /\ \A j \in 1 .. k - 1 : score(j) < score(k)
        IN /\ (ccall.result = None) <=> (categories = <<>>)
           /\ categories # <<>> =>
                 /\ \E k \in 1 .. Len(categories) : ccall.result = categories[k].id
                 /\ ccall.result = categories[best].id
                 /\ (\A k \in 1 .. Len(categories) : score(k) = 0) =>
                       ccall.result = categories[1].id

\* the category key is the domain, contains it or is contained in it
NameMatches(key, keyword_category) ==
    \/ key = keyword_category
    \/ Contains(key, keyword_category)
    \/ Contains(keyword_category, key)

\* the domains with a keyword in the title
HitDomains(task_title) ==
    { d \in 1 .. Len(CATEGORY_KEYWORDS) :
        \E j \in 1 .. Len(CATEGORY_KEYWORDS[d].keywords) :
            Contains(Lower(task_title), CATEGORY_KEYWORDS[d].keywords[j]) }

\* the keys of the score table of a call
ScoreKeys(categories) == category_id_map(categories, [keys |-> <<>>, ids |-> <<>>]).keys

\* the key that takes the points of the hits of domain d, or the empty
\* string when no key takes them
PointsGoTo(d, categories) ==
    find_best_category_match(CATEGORY_KEYWORDS[d].category_name, ScoreKeys(categories))

\* C24: a keyword hit of domain d adds a point only to a category whose
\* lower-cased name equals d, contains d or is contained in d; when no
\* supplied category name matches d in that way the hit adds a point to no
\* category.
C24_PointsOnlyToMatch ==
    Classified =>
        \A d \in HitDomains(ccall.task_title) :
            LET keyword_category == CATEGORY_KEYWORDS[d].category_name
                keys == ScoreKeys(ccall.categories)
                best_match == PointsGoTo(d, ccall.categories)
            IN IF \E k \in 1 .. Len(keys) : NameMatches(keys[k], keyword_category)
               THEN best_match # <<>> /\ NameMatches(best_match, keyword_category)
               ELSE best_match = <<>>

-----------------------------------------------------------------------------
(* Tasks, goals, events and categories of the session                      *)
(* (utils/data_manager.py) and the handlers of pages/01_Tasks.py and       *)
(* pages/06_Settings.py that call the operations on them.                  *)

MaxStored == 1
MaxReferences == 2

\* the points complete_task passes to award_points
CompleteTaskPoints == 10

IdsOf(l) == {l[k].id : k \in 1 .. Len(l)}

\* str(uuid.uuid4()): an id that is not in use, here the smallest one
FreshId(used) ==
    CHOOSE n \in 1 .. Cardinality(used) + 1 :
        n \notin used /\ \A m \in 1 .. n - 1 : m \in used

\* the history of awards counts up to the second award of an entity
Counted(sum, award) == IF sum + award > 2 * award THEN 2 * award ELSE sum + award

\* the record of an operation, with the categories it started from
TCall(op, id, ret) ==
    [op |-> op, id |-> id, ret |-> ret, pre_categories |-> session_categories]

\* save_user_data: every key of the file is written from the session
SaveStore(ts, gs, evs, cats) ==
    /\ tdisk' = store_data(ts, gs, evs, cats)
    /\ disk' = user_data(habits, habitObj, points, rewards, unlocked)

Mut_SliderPicks(min_value, max_value, value) == {min_value - 1, value, max_value + 1}

\* st.slider(min_value=1, max_value=5, value=...): the values submitted are
\* the two ends of the slider and the value it opens with
SliderPicks(min_value, max_value, value) ==
    {v \in {min_value, value, max_value} : min_value <= v /\ v <= max_value}

\* add_task, lines 72-95
add_task(category_id, importance, urgency) ==
    LET new_task == [id |-> FreshId(IdsOf(session_tasks)),
                     category_id |-> DefaultCategory(category_id),
                     completed |-> FALSE,
                     importance |-> importance,
                     urgency |-> urgency]
        ts2 == Append(session_tasks, new_task)
    IN /\ session_tasks' = ts2
       /\ SaveStore(ts2, session_goals, session_events, session_categories)
       /\ tcall' = TCall("add_task", new_task.id, "new_task")
       /\ awarded' = [awarded EXCEPT !.tasks = SetField(@, new_task.id, 0)]
       /\ UNCHANGED <<session_goals, session_events, session_categories>>
       /\ UNCHANGED <<habits, habitObj, points, rewards, unlocked, hcall>>

\* the position of the first dict with the id, 0 if there is none
IndexOfId(l, id) ==
    IF \E k \in 1 .. Len(l) : l[k].id = id
    THEN CHOOSE k \in 1 .. Len(l) : l[k].id = id /\ \A j \in 1 .. k - 1 : l[j].id # id
    ELSE 0

\* `for key, value in kwargs.items(): task[key] = value`
WithKwargs(d, kwargs) ==
    [f \in DOMAIN d \cup DOMAIN kwargs |-> IF f \in DOMAIN kwargs THEN kwargs[f] ELSE d[f]]

\* update_task, lines 97-109: the tasks after the call
UpdatedTasks(ts, task_id, kwargs) ==
    LET i == IndexOfId(ts, task_id)
    IN IF i = 0 THEN ts ELSE [ts EXCEPT ![i] = WithKwargs(ts[i], kwargs)]

update_task(task_id, kwargs) ==
    IF IndexOfId(session_tasks, task_id) = 0
    THEN /\ tcall' = TCall("update_task", task_id, "False")
         /\ UNCHANGED awarded
         /\ UNCHANGED <<session_tasks, session_goals, session_events,
                        session_categories, tdisk>>
         /\ UNCHANGED hvars
    ELSE LET ts2 == UpdatedTasks(session_tasks, task_id, kwargs)
         IN /\ session_tasks' = ts2
            /\ SaveStore(ts2, session_goals, session_events, session_categories)
            /\ tcall' = TCall("update_task", task_id, "True")
            /\ UNCHANGED awarded
            /\ UNCHANGED <<session_goals, session_events, session_categories>>
            /\ UNCHANGED <<habits, habitObj, points, rewards, unlocked, hcall>>

\* complete_task, lines 125-134: update_task, then award_points(10) with
\* its save and check_for_unlockable_rewards
complete_task(task_id) ==
    IF IndexOfId(session_tasks, task_id) = 0
    THEN /\ tcall' = TCall("complete_task", task_id, "False")
         /\ UNCHANGED awarded
         /\ UNCHANGED <<session_tasks, session_goals, session_events,
                        session_categories, tdisk>>
         /\ UNCHANGED hvars
    ELSE LET ts2 == UpdatedTasks(session_tasks, task_id,
                                 [completed |-> TRUE, completed_at |-> Now])
             pts2 == points + CompleteTaskPoints
             unl2 == check_for_unlockable_rewards(rewards, pts2, unlocked)
         IN /\ session_tasks' = ts2
            /\ points' = pts2
            /\ unlocked' = unl2
            /\ tdisk' = store_data(ts2, session_goals, session_events, session_categories)
            /\ disk' = user_data(habits, habitObj, pts2, rewards, unl2)
            /\ tcall' = TCall("complete_task", task_id, "True")
            /\ awarded' = [awarded EXCEPT !.tasks[task_id] = Counted(@, CompleteTaskPoints)]
            /\ UNCHANGED <<session_goals, session_events, session_categories>>
            /\ UNCHANGED <<habits, habitObj, rewards, hcall>>

\* the list comprehension of delete_task and delete_category
WithoutId(l, id) == SelectSeq(l, LAMBDA x : x.id # id)

\* delete_task, lines 111-123
delete_task(task_id) ==
    LET ts2 == WithoutId(session_tasks, task_id)
    IN IF Len(ts2) = Len(session_tasks)
       THEN /\ tcall' = TCall("delete_task", task_id, "False")
            /\ UNCHANGED awarded
            /\ UNCHANGED <<session_tasks, session_goals, session_events,
                           session_categories, tdisk>>
            /\ UNCHANGED hvars
       ELSE /\ session_tasks' = ts2
            /\ SaveStore(ts2, session_goals, session_events, session_categories)
            /\ tcall' = TCall("delete_task", task_id, "True")
            /\ UNCHANGED awarded
            /\ UNCHANGED <<session_goals, session_events, session_categories>>
            /\ UNCHANGED <<habits, habitObj, points, rewards, unlocked, hcall>>

\* the ids a handler can be started for: those of the tasks listed, and one
\* of a task that is gone
TaskIdArgs == 1 .. MaxStored + 1

\* pages/01_Tasks.py, the form submitted for a new task
SubmitNewTask ==
    /\ Len(session_tasks) < MaxStored
    /\ \E category_id \in CategoryChoices,
          importance \in SliderPicks(1, 5, 3), urgency \in SliderPicks(1, 5, 3) :
          add_task(category_id, importance, urgency)
    /\ UNCHANGED <<rvars, evars, xvars>>

\* pages/01_Tasks.py, the form submitted in edit mode: the sliders open with
\* the values the task had when Edit was clicked
SubmitEditTask ==
    /\ \E k \in 1 .. Len(session_tasks), category_id \in CategoryChoices :
         \E importance \in SliderPicks(1, 5, Get(session_tasks[k], "importance", 3)),
            urgency \in SliderPicks(1, 5, Get(session_tasks[k], "urgency", 3)) :
            update_task(session_tasks[k].id,
                        [category_id |-> category_id, importance |-> importance,
                         urgency |-> urgency])
    /\ UNCHANGED <<rvars, evars, xvars>>

\* pages/01_Tasks.py, the checkbox of a task that is not completed
CompleteTask ==
    /\ points < MaxAwards * CheckInPoints
    /\ \E task_id \in TaskIdArgs :
         /\ \A k \in 1 .. Len(session_tasks) :
               session_tasks[k].id = task_id => ~session_tasks[k].completed
         /\ complete_task(task_id)
    /\ UNCHANGED <<rvars, evars, xvars>>

\* pages/01_Tasks.py, the checkbox of a completed task
UncompleteTask ==
    /\ \E k \in 1 .. Len(session_tasks) :
         /\ session_tasks[k].completed
         /\ update_task(session_tasks[k].id, [completed |-> FALSE, completed_at |-> None])
    /\ UNCHANGED <<rvars, evars, xvars>>

\* pages/01_Tasks.py, the Delete button of a task
DeleteTask ==
    /\ \E task_id \in TaskIdArgs : delete_task(task_id)
    /\ UNCHANGED <<rvars, evars, xvars>>

TNext == SubmitNewTask \/ SubmitEditTask \/ CompleteTask \/ UncompleteTask \/ DeleteTask

InitTasks == TIdle /\ HInit /\ RIdle /\ EIdle /\ XIdle

SpecTasks == InitTasks /\ [][TNext]_vars

-----------------------------------------------------------------------------
(* Claims about the stored tasks.                                          *)

-----------------------------------------------------------------------------
(* Categories and what refers to them: add_category, delete_category and   *)
(* the add operations of the four kinds of entity (utils/data_manager.py), *)
(* and the Delete button of pages/06_Settings.py.                          *)

\* the category ids the entities of the session refer to
ReferencedIn(ts, gs, hs, objs, evs) ==
    {ts[k].category_id : k \in 1 .. Len(ts)}
    \cup {gs[k].category_id : k \in 1 .. Len(gs)}
    \cup {objs[hs[k]].category_id : k \in 1 .. Len(hs)}
    \cup {evs[k].category_id : k \in 1 .. Len(evs)}

Referenced == ReferencedIn(session_tasks, session_goals, habits, habitObj, session_events)

\* the tasks, goals, habits and events of the session
EntityCount ==
    Len(session_tasks) + Len(session_goals) + Len(habits) + Len(session_events)

\* the name typed into the category form
CategoryFormName == <<"W", "o", "r", "k">>

\* add_category, lines 345-360
add_category ==
    LET new_category == [id |-> FreshId(IdsOf(session_categories) \cup Referenced),
                         name |-> CategoryFormName]
        cats2 == Append(session_categories, new_category)
    IN /\ Len(session_categories) < MaxCategories
       /\ session_categories' = cats2
       /\ SaveStore(session_tasks, session_goals, session_events, cats2)
       /\ tcall' = TCall("add_category", new_category.id, "new_category")
       /\ UNCHANGED awarded
       /\ UNCHANGED <<session_tasks, session_goals, session_events>>
       /\ UNCHANGED <<habits, habitObj, points, rewards, unlocked, hcall>>
       /\ UNCHANGED <<rvars, evars, xvars>>

\* add_goal, lines 136-159; milestones is the list of milestone dicts
add_goal(category_id, milestones) ==
    LET new_goal == [id |-> FreshId(IdsOf(session_goals)),
                     category_id |-> DefaultCategory(category_id),
                     completed |-> FALSE,
                     milestones |-> milestones,
                     progress |-> 0]
        gs2 == Append(session_goals, new_goal)
    IN /\ session_goals' = gs2
       /\ SaveStore(session_tasks, gs2, session_events, session_categories)
       /\ tcall' = TCall("add_goal", new_goal.id, "new_goal")
       /\ awarded' = [awarded EXCEPT !.goals = SetField(@, new_goal.id, 0)]
       /\ UNCHANGED <<session_tasks, session_events, session_categories>>
       /\ UNCHANGED <<habits, habitObj, points, rewards, unlocked, hcall>>

\* a goal without milestones added in a category
AddGoalInCategory ==
    /\ EntityCount < MaxReferences
    /\ \E category_id \in CategoryChoices : add_goal(category_id, <<>>)
    /\ UNCHANGED <<rvars, evars, xvars>>

\* add_calendar_event, lines 294-315
add_calendar_event ==
    \E category_id \in CategoryChoices :
    LET new_event == [id |-> FreshId(IdsOf(session_events)),
                      category_id |-> DefaultCategory(category_id)]
        evs2 == Append(session_events, new_event)
    IN /\ EntityCount < MaxReferences
       /\ session_events' = evs2
       /\ SaveStore(session_tasks, session_goals, evs2, session_categories)
       /\ tcall' = TCall("add_calendar_event", new_event.id, "new_event")
       /\ UNCHANGED awarded
       /\ UNCHANGED <<session_tasks, session_goals, session_categories>>
       /\ UNCHANGED <<habits, habitObj, points, rewards, unlocked, hcall>>
       /\ UNCHANGED <<rvars, evars, xvars>>

\* a task added with the default importance and urgency of add_task
AddTaskInCategory ==
    /\ EntityCount < MaxReferences
    /\ \E category_id \in CategoryChoices : add_task(category_id, 3, 3)
    /\ UNCHANGED <<rvars, evars, xvars>>

\* pages/04_Health_Habits.py, the form submitted for a new habit
AddHabitInCategory ==
    /\ EntityCount < MaxReferences
    /\ add_habit

Mut_InUse(category_id) ==
    \E k \in 1 .. Len(session_tasks) : session_tasks[k].category_id = category_id

\* pages/06_Settings.py, lines 162-188: the four loops of the in-use check
InUse(category_id) ==
    \/ \E k \in 1 .. Len(session_tasks) :
          Get(session_tasks[k], "category_id", None) = category_id
    \/ \E k \in 1 .. Len(session_goals) :
          Get(session_goals[k], "category_id", None) = category_id
    \/ \E k \in 1 .. Len(habits) :
          Get(habitObj[habits[k]], "category_id", None) = category_id
    \/ \E k \in 1 .. Len(session_events) :
          Get(session_events[k], "category_id", None) = category_id

\* delete_category, lines 377-389
delete_category(category_id) ==
    LET cats2 == WithoutId(session_categories, category_id)
    IN IF Len(cats2) = Len(session_categories)
       THEN /\ tcall' = TCall("delete_category", category_id, "False")
            /\ UNCHANGED awarded
            /\ UNCHANGED <<session_tasks, session_goals, session_events,
                           session_categories, tdisk>>
            /\ UNCHANGED hvars
       ELSE /\ session_categories' = cats2
            /\ SaveStore(session_tasks, session_goals, session_events, cats2)
            /\ tcall' = TCall("delete_category", category_id, "True")
            /\ UNCHANGED awarded
            /\ UNCHANGED <<session_tasks, session_goals, session_events>>
            /\ UNCHANGED <<habits, habitObj, points, rewards, unlocked, hcall>>

\* pages/06_Settings.py, lines 160-194: the Delete button of a category
DeleteCategoryClicked ==
    /\ \E k \in 1 .. Len(session_categories) :
         LET category == session_categories[k]
         IN IF InUse(category.id)
            THEN \* st.warning: the category is in use
                 /\ tcall' = TCall("delete_clicked", category.id, "in use")
                 /\ UNCHANGED awarded
                 /\ UNCHANGED <<session_tasks, session_goals, session_events,
                                session_categories, tdisk>>
                 /\ UNCHANGED hvars
            ELSE delete_category(category.id)
    /\ UNCHANGED <<rvars, evars, xvars>>

GNext ==
    \/ add_category
    \/ AddTaskInCategory
    \/ AddGoalInCategory
    \/ AddHabitInCategory
    \/ add_calendar_event
    \/ DeleteTask
    \/ DeleteCategoryClicked

SpecSettings == InitTasks /\ [][GNext]_vars

-----------------------------------------------------------------------------
(* Claims about the Delete button of a category.                           *)

DeleteClicked == tcall.op \in {"delete_clicked", "delete_category"}

\* the category ids referred to that are the id of no category
Dangling(cats) == (Referenced \ {None}) \ IdsOf(cats)

\* C18: the Delete button never removes a category that a task, goal, habit
\* or event refers to, the category list is then unchanged; a category is
\* removed only when nothing refers to it, so the button never leaves a
\* category_id without its category.
C18_DeleteKeepsReferenced ==
    DeleteClicked =>
        /\ tcall.id \in Referenced => session_categories = tcall.pre_categories
        /\ session_categories # tcall.pre_categories =>
              /\ tcall.id \notin Referenced
              /\ session_categories = WithoutId(tcall.pre_categories, tcall.id)
        /\ Dangling(session_categories) = Dangling(tcall.pre_categories)

\* the button is used on a category that a habit refers to, another
\* category being free
C18_Witness ==
    /\ tcall.op = "delete_clicked"
    /\ tcall.ret = "in use"
    /\ \E k \in 1 .. Len(habits) : habitObj[habits[k]].category_id = tcall.id
    /\ Len(session_categories) = 2
    /\ session_categories = tcall.pre_categories

-----------------------------------------------------------------------------
(* Goals and their completion (utils/data_manager.py) and the handlers of  *)
(* pages/03_Goals.py: the checkbox of a milestone and the Complete button. *)

MaxGoals == 1
MaxMilestones == 2

\* the points complete_goal passes to award_points
CompleteGoalPoints == 50

\* update_goal, lines 161-174, for a goal list gs that holds the id
update_goal(gs, goal_id, kwargs) ==
    LET i == IndexOfId(gs, goal_id)
    IN [gs EXCEPT ![i] = WithKwargs(gs[i], kwargs)]

\* complete_goal, lines 189-198, called with the goal list gs: update_goal,
\* then award_points(50) with its save and check_for_unlockable_rewards
complete_goal(gs, goal_id) ==
    IF IndexOfId(gs, goal_id) = 0
    THEN /\ tcall' = TCall("complete_goal", goal_id, "False")
         /\ UNCHANGED awarded
         /\ UNCHANGED <<session_tasks, session_goals, session_events,
                        session_categories, tdisk>>
         /\ UNCHANGED hvars
    ELSE LET gs2 == update_goal(gs, goal_id, [completed |-> TRUE, completed_at |-> Now])
             pts2 == points + CompleteGoalPoints
             unl2 == check_for_unlockable_rewards(rewards, pts2, unlocked)
         IN /\ session_goals' = gs2
            /\ points' = pts2
            /\ unlocked' = unl2
            /\ tdisk' = store_data(session_tasks, gs2, session_events, session_categories)
            /\ disk' = user_data(habits, habitObj, pts2, rewards, unl2)
            /\ tcall' = TCall("complete_goal", goal_id, "True")
            /\ awarded' = [awarded EXCEPT !.goals[goal_id] = Counted(@, CompleteGoalPoints)]
            /\ UNCHANGED <<session_tasks, session_events, session_categories>>
            /\ UNCHANGED <<habits, habitObj, rewards, hcall>>

\* the milestones a new goal is given: none of them completed
NewMilestones(n) == [i \in 1 .. n |-> [completed |-> FALSE]]

\* pages/03_Goals.py, the form submitted for a new goal
SubmitNewGoal ==
    /\ Len(session_goals) < MaxGoals
    /\ \E category_id \in CategoryChoices, n \in 0 .. MaxMilestones :
          add_goal(category_id, NewMilestones(n))
    /\ UNCHANGED <<rvars, evars, xvars>>

\* the milestones that are completed
CompletedMilestones(milestones) ==
    Cardinality({i \in 1 .. Len(milestones) : Get(milestones[i], "completed", FALSE)})

\* pages/03_Goals.py, lines 151-176: the checkbox of the i-th milestone of
\* a listed goal is clicked
ToggleMilestone ==
    /\ points < MaxAwards * CompleteGoalPoints
    /\ \E k \in 1 .. Len(session_goals) : \E i \in 1 .. Len(session_goals[k].milestones) :
         LET goal == session_goals[k]
             milestone_status == ~Get(goal.milestones[i], "completed", FALSE)
             \* line 162, on the dict of the session
             gs1 == [session_goals EXCEPT ![k].milestones[i].completed = milestone_status]
             total_milestones == Len(goal.milestones)
             completed_milestones == CompletedMilestones(gs1[k].milestones)
             progress == (completed_milestones * 100) \div total_milestones
             gs2 == update_goal(gs1, goal.id, [progress |-> progress])
         IN IF completed_milestones = total_milestones
            THEN complete_goal(gs2, goal.id)
            ELSE /\ session_goals' = gs2
                 /\ SaveStore(session_tasks, gs2, session_events, session_categories)
                 /\ tcall' = TCall("update_goal", goal.id, "True")
                 /\ UNCHANGED awarded
                 /\ UNCHANGED <<session_tasks, session_events, session_categories>>
                 /\ UNCHANGED <<habits, habitObj, points, rewards, unlocked, hcall>>
    /\ UNCHANGED <<rvars, evars, xvars>>

\* pages/03_Goals.py, lines 191-196: the Complete button, which a goal that
\* is not completed has
CompleteGoalClicked ==
    /\ points < MaxAwards * CompleteGoalPoints
    /\ \E k \in 1 .. Len(session_goals) :
         /\ ~Get(session_goals[k], "completed", FALSE)
         /\ complete_goal(session_goals, session_goals[k].id)
    /\ UNCHANGED <<rvars, evars, xvars>>

ANext ==
    \/ SubmitNewTask
    \/ CompleteTask
    \/ UncompleteTask
    \/ SubmitNewGoal
    \/ ToggleMilestone
    \/ CompleteGoalClicked

SpecAwards == InitTasks /\ [][ANext]_vars

-----------------------------------------------------------------------------
(* Claims about the completion points.                                     *)

\* C28: completion points are granted at most once per entity: over any
\* sequence of Tasks-page checkbox toggles and Goals-page milestone toggles
\* and Complete clicks, the points awarded for one task never exceed 10 and
\* the points awarded for one goal never exceed 50.
C28_AwardedOnce ==
    /\ \A id \in DOMAIN awarded.tasks : awarded.tasks[id] <= CompleteTaskPoints
    /\ \A id \in DOMAIN awarded.goals : awarded.goals[id] <= CompleteGoalPoints

-----------------------------------------------------------------------------
(* Rewards (utils/data_manager.py): add_reward and redeem_reward, with the *)
(* operations that award points.  In the record of a reward operation the  *)
(* field habit_id holds the id of the reward.                              *)

MaxRewards == 1

\* the point_cost a reward is added with
RewardCosts == {0, 10}

\* add_reward, lines 404-420
add_reward(point_cost) ==
    LET new_reward == [id |-> FreshId(IdsOf(rewards)), point_cost |-> point_cost]
        rws2 == Append(rewards, new_reward)
    IN /\ rewards' = rws2
       /\ disk' = user_data(habits, habitObj, points, rws2, unlocked)
       /\ hcall' = HCall("add_reward", new_reward.id, 0, "new_reward")
       /\ UNCHANGED <<habits, habitObj, points, unlocked>>

\* a redemption that appends an entry whether or not there is one
Mut_RedeemedEntries(unl, reward) ==
    Append(unl, SetField(SetField(reward, "unlocked_at", Now), "redeemed_at", Now))

\* lines 465-480: unlocked_rewards after the reward is redeemed
RedeemedEntries(unl, reward) ==
    IF ~\E k \in 1 .. Len(unl) : unl[k].id = reward.id
    THEN Append(unl, SetField(SetField(reward, "unlocked_at", Now), "redeemed_at", Now))
    ELSE LET i == IndexOfId(unl, reward.id)
         IN [unl EXCEPT ![i] = SetField(@, "redeemed_at", Now)]

\* redeem_reward, lines 445-483
redeem_reward(reward_id) ==
    LET i == IndexOfId(rewards, reward_id)
    IN IF i = 0 \/ points < rewards[IF i = 0 THEN 1 ELSE i].point_cost
       THEN /\ hcall' = HCall("redeem_reward", reward_id, 0, "False")
            /\ UNCHANGED <<habits, habitObj, points, rewards, unlocked, disk>>
       ELSE LET reward == rewards[i]
                pts2 == points - reward.point_cost
                unl2 == RedeemedEntries(unlocked, reward)
            IN /\ points' = pts2
               /\ unlocked' = unl2
               /\ disk' = user_data(habits, habitObj, pts2, rewards, unl2)
               /\ hcall' = HCall("redeem_reward", reward_id, 0, "True")
               /\ UNCHANGED <<habits, habitObj, rewards>>

AddReward ==
    /\ Len(rewards) < MaxRewards
    /\ \E point_cost \in RewardCosts : add_reward(point_cost)
    /\ UNCHANGED <<rvars, evars, xvars, tvars>>

\* the ids redeem_reward is called with: those of the rewards, and one of no
\* reward
RewardIdArgs == 1 .. MaxRewards + 1

RedeemReward ==
    /\ \E reward_id \in RewardIdArgs : redeem_reward(reward_id)
    /\ UNCHANGED <<rvars, evars, xvars, tvars>>

\* the session gets its first task, its first goal, its first habit
AddFirstTask ==
    /\ session_tasks = <<>>
    /\ add_task(None, 3, 3)
    /\ UNCHANGED <<rvars, evars, xvars>>

AddFirstGoal ==
    /\ session_goals = <<>>
    /\ add_goal(None, <<>>)
    /\ UNCHANGED <<rvars, evars, xvars>>

AddFirstHabit ==
    /\ habits = <<>>
    /\ add_habit

\* check_in_habit for the first habit, today or tomorrow
CheckInFirstHabit ==
    /\ points < MaxAwards * CheckInPoints
    /\ \E d \in {0, 1} : check_in_habit(1, d)
    /\ UNCHANGED <<rvars, evars, xvars, tvars>>

\* complete_task called for any id, completed before or not
CompleteAnyTask ==
    /\ points < MaxAwards * CheckInPoints
    /\ \E task_id \in TaskIdArgs : complete_task(task_id)
    /\ UNCHANGED <<rvars, evars, xvars>>

\* complete_goal called for any id, completed before or not
CompleteAnyGoal ==
    /\ points < MaxAwards * CheckInPoints
    /\ \E goal_id \in 1 .. MaxGoals + 1 : complete_goal(session_goals, goal_id)
    /\ UNCHANGED <<rvars, evars, xvars>>

WNext ==
    \/ AddFirstTask
    \/ AddFirstGoal
    \/ AddFirstHabit
    \/ CompleteAnyTask
    \/ CompleteAnyGoal
    \/ CheckInFirstHabit
    \/ AddReward
    \/ RedeemReward

SpecRewards == InitTasks /\ [][WNext]_vars

-----------------------------------------------------------------------------
(* Claims about the points total.                                          *)

\* the last operation was redeem_reward
Redeemed == hcall.op = "redeem_reward"

\* the entries of unlocked_rewards with the id
EntriesOf(unl, reward_id) == {k \in 1 .. Len(unl) : unl[k].id = reward_id}

\* what a step that is the call redeem_reward(reward_id) has to do
RedeemedAsClaimed(reward_id) ==
    LET i == IndexOfId(rewards, reward_id)
    IN IF i = 0 \/ points < rewards[IF i = 0 THEN 1 ELSE i].point_cost
       THEN /\ hcall'.ret = "False"
            /\ points' = points
            /\ unlocked' = unlocked
       ELSE /\ hcall'.ret = "True"
            /\ points' = points - rewards[i].point_cost
            /\ Cardinality(EntriesOf(unlocked', reward_id)) = 1

\* C29: the points total is never negative in any state reached through
\* complete_task, complete_goal, check_in_habit, add_reward (with a
\* non-negative cost) and redeem_reward; redeem_reward returns False and
\* leaves points and unlocked_rewards unchanged when the reward id is
\* unknown or points < point_cost, and otherwise takes exactly point_cost
\* from points and leaves exactly one unlocked_rewards entry for the id.
C29_PointsNeverNegative ==
    /\ points >= 0
    /\ [][ /\ points' >= 0
           /\ \A reward_id \in RewardIdArgs :
                 redeem_reward(reward_id) => RedeemedAsClaimed(reward_id) ]_vars

\* a reward of cost 10 that an award had unlocked is redeemed with exactly
\* 10 points
C29_Witness ==
    /\ Redeemed
    /\ hcall.ret = "True"
    /\ hcall.pre_points = 10
    /\ points = 0
    /\ \E k \in EntriesOf(unlocked, hcall.habit_id) : "redeemed_at" \in DOMAIN unlocked[k]

\* the session as save_user_data would write it now
SessionData ==
    [habits_file |-> user_data(habits, habitObj, points, rewards, unlocked),
     store_file  |-> store_data(session_tasks, session_goals, session_events,
                                session_categories)]

\* the user data last written
WrittenData == [habits_file |-> disk, store_file |-> tdisk]

\* C30: after every mutating operation of the data manager that returns
\* normally, the user data last written by save_user_data equals the
\* session state for the persisted keys; no operation changes the session
\* after its last save.
C30_SavedEqualsSession ==
    (hcall.op # "init" /\ hcall.ret # "IndexError") => WrittenData = SessionData

-----------------------------------------------------------------------------
(* The priority bands: calculate_priority_label (app.py) and the priority  *)
(* filter and the label of a listed task (pages/01_Tasks.py).              *)

\* the task dicts that are filtered and labelled: importance and urgency in
\* 1 .. 5, each present or missing
PriorityTasks ==
    { [f \in fs |-> CASE f = "importance" -> i [] f = "urgency" -> u] :
        fs \in SUBSET {"importance", "urgency"}, i \in Ratings, u \in Ratings }

\* the options of the priority selectbox
priority_options == {"All Priorities", "Critical", "High", "Medium", "Low"}

Mut_calculate_priority_label(task) ==
    LET priority_score == Get(task, "importance", 1) * Get(task, "urgency", 1)
    IN IF priority_score > 20 THEN "Critical"
       ELSE IF priority_score >= 12 THEN "High"
       ELSE IF priority_score >= 6 THEN "Medium"
       ELSE "Low"

\* app.py, lines 334-347
calculate_priority_label(task) ==
    LET importance == Get(task, "importance", 1)
        urgency == Get(task, "urgency", 1)
        priority_score == importance * urgency
    IN IF priority_score >= 20 THEN "Critical"
       ELSE IF priority_score >= 12 THEN "High"
       ELSE IF priority_score >= 6 THEN "Medium"
       ELSE "Low"

\* pages/01_Tasks.py, lines 168-180: the label shown with a listed task
priority_label(task) ==
    LET importance == Get(task, "importance", 1)
        urgency == Get(task, "urgency", 1)
        priority_score == importance * urgency
    IN IF priority_score >= 20 THEN "Critical"
       ELSE IF priority_score >= 12 THEN "High"
       ELSE IF priority_score >= 6 THEN "Medium"
       ELSE "Low"

\* pages/01_Tasks.py, lines 102-110: the task stays in the list under the
\* selected priority
PriorityFilter(selected_priority, task) ==
    LET score == Get(task, "importance", 1) * Get(task, "urgency", 1)
    IN IF selected_priority # "All Priorities"
       THEN CASE selected_priority = "Critical" -> score >= 20
              [] selected_priority = "High" -> 12 <= score /\ score < 20
              [] selected_priority = "Medium" -> 6 <= score /\ score < 12
              [] selected_priority = "Low" -> score < 6
              [] OTHER -> TRUE
       ELSE TRUE

\* the task list is drawn under a priority filter and the dashboard labels
\* the same task
ShowPriority ==
    /\ pcall.op = "input"
    /\ pcall' = [pcall EXCEPT !.op = "show",
                              !.shown = PriorityFilter(pcall.selected_priority, pcall.task),
                              !.label = calculate_priority_label(pcall.task),
                              !.page_label = priority_label(pcall.task)]
    /\ UNCHANGED <<hvars, rvars, evars, svars, dvars, cvars, tvars>>

PInit ==
    \E task \in PriorityTasks, selected_priority \in priority_options :
        pcall = [op |-> "input", task |-> task, selected_priority |-> selected_priority,
                 shown |-> FALSE, label |-> "None", page_label |-> "None"]

PNext == ShowPriority

InitPriority == PInit /\ HInit /\ RIdle /\ EIdle /\ SIdle /\ DIdle /\ CIdle /\ TIdle

SpecPriority == InitPriority /\ [][PNext]_vars

-----------------------------------------------------------------------------
(* Claims about the priority bands.                                        *)

PriorityShown == pcall.op = "show"

\* the bands as the claim gives them
InBand(band, score) ==
    CASE band = "Critical" -> score >= 20
      [] band = "High" -> score \in 12 .. 19
      [] band = "Medium" -> score \in 6 .. 11
      [] band = "Low" -> score < 6

\* C19: for importance and urgency in 1 .. 5 the score importance * urgency
\* is in exactly one of the bands Critical (>= 20), High (12 .. 19), Medium
\* (6 .. 11), Low (< 6), and the band the priority filter of the Tasks page
\* puts a task in is the label calculate_priority_label and the Tasks page
\* give it.
C19_BandsAgree ==
    PriorityShown =>
        LET bands == {"Critical", "High", "Medium", "Low"}
            score == Get(pcall.task, "importance", 1) * Get(pcall.task, "urgency", 1)
        IN /\ Cardinality({b \in bands : InBand(b, score)}) = 1
           /\ Cardinality({b \in bands : PriorityFilter(b, pcall.task)}) = 1
           /\ InBand(pcall.label, score)
           /\ pcall.page_label = pcall.label
           /\ PriorityFilter(pcall.label, pcall.task)
           /\ pcall.selected_priority \in bands =>
                 (pcall.shown <=> pcall.selected_priority = pcall.label)

\* a task of importance 4 and urgency 5 is shown under Critical and
\* labelled Critical
C19_Witness ==
    /\ PriorityShown
    /\ pcall.task = [importance |-> 4, urgency |-> 5]
    /\ pcall.selected_priority = "Critical"
    /\ pcall.shown
    /\ pcall.label = "Critical"
    /\ pcall.page_label = "Critical"

\* C26: a missing importance or urgency is read as 3 wherever a priority
\* score is computed: the label of calculate_priority_label, the label and
\* the filter of the Tasks page are those of the score with 3 for a missing
\* field, and a task with neither field has the score 9 and the band Medium
\* there, as in get_next_tasks and estimate_task_duration.
C26_MissingReadAsThree ==
    PriorityShown =>
        LET task == pcall.task
            score == Get(task, "importance", 3) * Get(task, "urgency", 3)
        IN /\ PriorityScore(task) = score
           /\ InBand(pcall.label, score)
           /\ InBand(pcall.page_label, score)
           /\ \A band \in {"Critical", "High", "Medium", "Low"} :
                 PriorityFilter(band, task) <=> InBand(band, score)
           /\ DOMAIN task = {} =>
                 /\ PriorityScore(task) = 9
                 /\ estimate_task_duration(task) = estimate_task_duration(
                        [importance |-> 3, urgency |-> 3])
                 /\ pcall.label = "Medium"
                 /\ pcall.page_label = "Medium"
                 /\ PriorityFilter("Medium", task)

====
